---- MODULE Spec2Model ----
(***************************************************************************)
(* rag_lite backend: storage factory, storage providers (local disk and    *)
(* MinIO), and the Knowledgebase / Document services with their            *)
(* compensating storage actions, modelled as a state machine.              *)
(*                                                                         *)
(* Specifications                                                          *)
(*   SpecFactory : request threads inside get_storage_provider, plus the   *)
(*                 test-harness operations reset_storage_provider and a    *)
(*                 change of Config.STORAGE_TYPE.                          *)
(*   SpecStorage : one provider instance driven through upload / delete /  *)
(*                 exists / get_url.                                       *)
(*   SpecDocs    : concurrent requests uploading and deleting documents,   *)
(*                 changing their status, creating and deleting           *)
(*                 knowledge bases, over one database and one store.      *)
(*   SpecCovers  : concurrent requests uploading images and creating,      *)
(*                 updating and deleting knowledge bases with covers.      *)
(*   SpecAuth    : tokens issued, forged, aged and verified, and requests    *)
(*                 through login_required.                                   *)
(*   SpecOwn     : two users working on each other's knowledge bases and     *)
(*                 documents, queries included.                              *)
(*   SpecCreate  : POST /kb with sizes and overlaps around the limits.       *)
(*   SpecChunks  : concurrent updates of chunk_size and chunk_overlap.       *)
(*   SpecNames   : creations and concurrent renames competing for names.     *)
(*   SpecSettings: gets and concurrent updates of the settings record.       *)
(*   SpecContract: every service operation, and the shape of what it         *)
(*                 returns.                                                  *)
(*   SpecFiles   : GET /files/<key> with keys made for path traversal.       *)
(*   SpecComp    : one request at a time through upload, create, update and  *)
(*                 delete with their compensating storage deletes.           *)
(*   SpecDelete  : document deletion against status changes.                 *)
(*   SpecSessions: the database session of create / get / update, with the   *)
(*                 storage calls made inside it.                             *)
(*   SpecConfine : local storage given cover keys that leave its root.       *)
(*   SpecErrors  : every mutating service call with its error returns.       *)
(*   SpecStateless: login, logout, password change, deactivation and expiry  *)
(*                 against login_required.                                   *)
(*   SpecFilter  : get_by_id, get_list, update and delete called with a      *)
(*                 user_id, None or ''.                                      *)
(***************************************************************************)
EXTENDS Integers, Sequences, FiniteSets, TLC

VARIABLES
    STORAGE_TYPE,       \* Config.STORAGE_TYPE
    storage_provider,   \* factory._storage_provider (None or an instance)
    thr,                \* per thread: position inside get_storage_provider
    bucketExists,       \* whether the MinIO bucket exists on the server
    nextInst,           \* identity of the next provider object constructed
    epochMade,          \* history: instances constructed since the last reset
    epochRet,           \* history: values returned by get since the last reset
    retired,            \* history: instances discarded by a reset
    makeBucketCalls,    \* history: make_bucket calls issued
    files,              \* local disk: absolute paths of regular files
    dirs,               \* local disk: absolute paths of directories
    objects,            \* MinIO bucket: object names present
    nextKey,            \* how many object keys uuid4 has produced so far
    probe,              \* SpecStorage: the last provider call and its result
    live,               \* SpecStorage history: uploaded keys not yet passed to delete
    everUploaded,       \* SpecStorage history: keys some upload has returned
    kbs,                \* table knowledgebase: id -> row
    docs,               \* table document: id -> row
    nextId,             \* how many primary keys uuid4 has produced so far
    req,                \* per request slot: handler, position, locals, result
    removed,            \* history: blobs actually removed from storage
    clock,              \* the time, in ticks since the epoch
    SECRET_KEY,         \* current_app.config["SECRET_KEY"]
    held,               \* the token a client holds, and how it came to be
    settings,           \* the settings table and the open sessions of update
    resp,               \* the last call and what it answered
    users               \* table user: its rows

factoryVars == <<STORAGE_TYPE, storage_provider, thr, bucketExists, nextInst,
                 epochMade, epochRet, retired, makeBucketCalls>>
storeVars == <<files, dirs, objects, nextKey>>
probeVars == <<probe, live, everUploaded>>
dbVars == <<kbs, docs, nextId>>
svcVars == <<req, removed>>
appVars == <<clock, SECRET_KEY, held, settings, resp, users>>
vars == <<factoryVars, storeVars, probeVars, dbVars, svcVars, appVars>>

None == "None"

\* Python's None / '' where a key or URL is expected: both are falsy and the
\* code only ever tests them with `not`.
NoKey == <<>>
NoUrl == <<>>

(***************************************************************************)
(* Bounds                                                                  *)
(***************************************************************************)
NumThreads == 2
MaxInstances == 3
MaxKeys == 2
MaxIds == 3
NumRequests == 2

Threads == 1..NumThreads

(***************************************************************************)
(* Configuration (app/config.py)                                           *)
(***************************************************************************)
\* Values Config.STORAGE_TYPE takes here: the two supported ones, an
\* upper-case spelling, and an unsupported one.
ConfigValues == {"local", "minio", "LOCAL", "oss"}

\* str.lower() on the configuration values.
Lower(s) == CASE s = "LOCAL" -> "local"
              [] s = "Bearer" -> "bearer"
              [] s = "Basic" -> "basic"
              [] OTHER -> s

\* os.path.abspath(Config.LOCAL_UPLOAD_DIR), as a list of path components.
UploadDir == <<"srv", "uploads">>

(***************************************************************************)
(* Paths (os.path)                                                         *)
(***************************************************************************)
\* os.path.dirname on a component list; dirname("/") is "/".
Dirname(p) == IF p = <<>> THEN <<>> ELSE SubSeq(p, 1, Len(p) - 1)

\* all proper-or-equal prefixes of p: the directories os.makedirs creates.
Prefixes(p) == {SubSeq(p, 1, n) : n \in 0..Len(p)}

\* os.path.join(base, key): an absolute key (first component "/") replaces base.
Join(base, key) == IF key # <<>> /\ key[1] = "/" THEN Tail(key) ELSE base \o key

\* os.path.normpath on an absolute component list: drops ".", folds "..".
RECURSIVE NormFrom(_, _)
NormFrom(acc, rest) ==
    IF rest = <<>> THEN acc
    ELSE LET c == Head(rest) IN
         IF c = "." THEN NormFrom(acc, Tail(rest))
         ELSE IF c = ".." THEN NormFrom(Dirname(acc), Tail(rest))
         ELSE NormFrom(Append(acc, c), Tail(rest))

NormPath(p) == NormFrom(<<>>, p)

\* The path the operating system reaches for p: every component is looked up
\* in a directory that exists; NoEnt when the walk leaves existing directories.
NoEnt == <<"?">>

RECURSIVE Walk(_, _, _)
Walk(ds, cur, rest) ==
    IF rest = <<>> THEN cur
    ELSE IF cur \notin ds THEN NoEnt
    ELSE LET c == Head(rest) IN
         IF c = "." THEN Walk(ds, cur, Tail(rest))
         ELSE IF c = ".." THEN Walk(ds, Dirname(cur), Tail(rest))
         ELSE Walk(ds, Append(cur, c), Tail(rest))

Resolve(ds, p) == Walk(ds, <<>>, p)

\* os.listdir(r): the entries directly inside directory r.
Children(fs, ds, r) == {p \in fs \cup ds : p # <<>> /\ Dirname(p) = r}

(***************************************************************************)
(* Object keys (app/services/storage/base.py)                              *)
(***************************************************************************)
Year == "2026"
Month == "11"

\* os.path.splitext(filename)[1].lower(), '.bin' when there is no extension.
ExtOf(filename) == CASE filename = "report.PDF" -> ".pdf"
                     [] filename = "cover.png" -> ".png"
                     [] OTHER -> ".bin"

\* generate_object_key: {biz_type}/{year}/{month:02d}/{unique}{ext}; n stands
\* for the n-th value of uuid4().hex[:16], different on every call.
generate_object_key(filename, biz_type, n) ==
    <<biz_type, Year, Month, ToString(n) \o ExtOf(filename)>>

(***************************************************************************)
(* LocalStorageProvider (app/services/storage/local_storage.py)            *)
(***************************************************************************)
_get_full_path(object_key) == Join(UploadDir, object_key)

\* _ensure_dir_exists: os.makedirs(dir_path, exist_ok=True).
_ensure_dir_exists(ds, dir_path) == ds \cup Prefixes(dir_path)

\* exists: os.path.exists(full_path) and os.path.isfile(full_path).
LocalExists(fs, ds, object_key) ==
    /\ object_key # <<>>
    /\ Resolve(ds, _get_full_path(object_key)) \in fs

\* get_url: None for an empty or absent key, else the application URL.
LocalGetUrl(fs, ds, object_key) ==
    IF object_key = <<>> THEN NoUrl
    ELSE IF ~LocalExists(fs, ds, object_key) THEN NoUrl
    ELSE <<"http://host", "api", "upload", "files">> \o object_key

\* _cleanup_empty_dirs: remove dir_path when empty and walk to its parent,
\* stopping at the upload root; any exception ends the walk silently.
RECURSIVE _cleanup_empty_dirs(_, _, _)
_cleanup_empty_dirs(fs, ds, dir_path) ==
    IF NormPath(dir_path) = NormPath(UploadDir) THEN ds
    ELSE LET r == Resolve(ds, dir_path) IN
         IF r \in ds /\ r # <<>> /\ Children(fs, ds, r) = {}
         THEN _cleanup_empty_dirs(fs, ds \ {r}, Dirname(dir_path))
         ELSE ds

\* upload. io is what the disk does: "ok"; "fail" (open raises after the
\* directories are made); "partial" (a write raises, the file stays).
LocalUpload(fs, ds, filename, biz_type, n, io) ==
    LET object_key == generate_object_key(filename, biz_type, n)
        full_path == _get_full_path(object_key)
        ds2 == _ensure_dir_exists(ds, Dirname(full_path))
    IN  IF io = "ok"
        THEN [files |-> fs \cup {full_path}, dirs |-> ds2, key |-> object_key, error |-> None]
        ELSE IF io = "partial"
        THEN [files |-> fs \cup {full_path}, dirs |-> ds2, key |-> NoKey, error |-> "write failed"]
        ELSE [files |-> fs, dirs |-> ds2, key |-> NoKey, error |-> "write failed"]

\* A delete that reports a missing file as an error.
LocalDelete_MissingIsError(fs, ds, object_key, io) ==
    IF object_key = <<>> THEN [files |-> fs, dirs |-> ds, ok |-> TRUE, raised |-> FALSE]
    ELSE LET full_path == _get_full_path(object_key)
             p == Resolve(ds, full_path)
         IN  IF p \in fs /\ io # "fail"
             THEN [files |-> fs \ {p},
                   dirs |-> _cleanup_empty_dirs(fs \ {p}, ds, Dirname(full_path)),
                   ok |-> TRUE, raised |-> FALSE]
             ELSE [files |-> fs, dirs |-> ds, ok |-> FALSE, raised |-> p \in fs \cup ds]

\* A delete that reports success without removing anything.
LocalDelete_KeepsFile(fs, ds, object_key, io) ==
    [files |-> fs, dirs |-> ds, ok |-> TRUE, raised |-> FALSE]

\* delete. os.remove raises OSError on a directory, or when io = "fail".
LocalDelete(fs, ds, object_key, io) ==
    IF object_key = <<>> THEN [files |-> fs, dirs |-> ds, ok |-> TRUE, raised |-> FALSE]
    ELSE LET full_path == _get_full_path(object_key)
             p == Resolve(ds, full_path)
         IN  IF p \in fs \/ p \in ds
             THEN IF p \in ds \/ io = "fail"
                  THEN [files |-> fs, dirs |-> ds, ok |-> FALSE, raised |-> TRUE]
                  ELSE [files |-> fs \ {p},
                        dirs |-> _cleanup_empty_dirs(fs \ {p}, ds, Dirname(full_path)),
                        ok |-> TRUE, raised |-> FALSE]
             ELSE [files |-> fs, dirs |-> ds, ok |-> TRUE, raised |-> FALSE]

(***************************************************************************)
(* MinIOStorageProvider (app/services/storage/minio_storage.py)            *)
(* io = "fail" is the client call raising (network, server error).         *)
(***************************************************************************)
MinioUpload(objs, filename, biz_type, n, io) ==
    LET object_key == generate_object_key(filename, biz_type, n)
    IN  IF io = "ok"
        THEN [objects |-> objs \cup {object_key}, key |-> object_key, error |-> None]
        ELSE [objects |-> objs, key |-> NoKey, error |-> "MinIO upload failed"]

\* remove_object does not fail on an absent object.
MinioDelete(objs, object_key, io) ==
    IF object_key = <<>> THEN [objects |-> objs, ok |-> TRUE, raised |-> FALSE]
    ELSE IF io = "fail" THEN [objects |-> objs, ok |-> FALSE, raised |-> TRUE]
    ELSE [objects |-> objs \ {object_key}, ok |-> TRUE, raised |-> FALSE]

\* exists: stat_object succeeded; any exception reads as absent.
MinioExists(objs, object_key, io) ==
    /\ object_key # <<>>
    /\ io # "fail"
    /\ object_key \in objs

\* get_url: a presigned URL, computed without looking at the object.
MinioGetUrl(object_key, io) ==
    IF object_key = <<>> THEN NoUrl
    ELSE IF io = "fail" THEN NoUrl
    ELSE <<"http://minio", "bucket">> \o object_key \o <<"signature">>

(***************************************************************************)
(* BaseStorageProvider interface, dispatched on the instance's class       *)
(* (app/services/storage/base.py)                                          *)
(***************************************************************************)
IoOutcomes == {"ok", "fail"}

ProvUpload(kind, filename, biz_type, n, io) ==
    IF kind = "local"
    THEN LET r == LocalUpload(files, dirs, filename, biz_type, n, io)
         IN  [files |-> r.files, dirs |-> r.dirs, objects |-> objects,
              key |-> r.key, error |-> r.error]
    ELSE LET r == MinioUpload(objects, filename, biz_type, n,
                              IF io = "partial" THEN "fail" ELSE io)
         IN  [files |-> files, dirs |-> dirs, objects |-> r.objects,
              key |-> r.key, error |-> r.error]

ProvDelete(kind, object_key, io) ==
    IF kind = "local"
    THEN LET r == LocalDelete(files, dirs, object_key, io)
         IN  [files |-> r.files, dirs |-> r.dirs, objects |-> objects,
              ok |-> r.ok, raised |-> r.raised]
    ELSE LET r == MinioDelete(objects, object_key, io)
         IN  [files |-> files, dirs |-> dirs, objects |-> r.objects,
              ok |-> r.ok, raised |-> r.raised]

ProvExists(kind, object_key, io) ==
    IF kind = "local" THEN LocalExists(files, dirs, object_key)
    ELSE MinioExists(objects, object_key, io)

ProvGetUrl(kind, object_key, io) ==
    IF kind = "local" THEN LocalGetUrl(files, dirs, object_key)
    ELSE MinioGetUrl(object_key, io)

(***************************************************************************)
(* Storage factory (app/services/storage/factory.py)                       *)
(***************************************************************************)
\* _storage_provider = None
NoInst == [id |-> 0, kind |-> None]

NoRes == [kind |-> "none", inst |-> NoInst]

IdleThread == [pc |-> "idle", inst |-> NoInst, saw |-> FALSE, res |-> NoRes]

Quiescent == \A t \in Threads : thr[t].pc = "idle"

Supported == {"local", "minio"}

\* A factory that falls back to the local provider for an unsupported type.
GetEnter_DefaultsToLocal(t) ==
    /\ thr[t].pc = "idle"
    /\ IF storage_provider # NoInst
       THEN /\ thr' = [thr EXCEPT ![t].res = [kind |-> "ret", inst |-> storage_provider]]
            /\ epochRet' = epochRet \cup {storage_provider}
       ELSE LET storage_type == Lower(STORAGE_TYPE) IN
            /\ epochRet' = epochRet
            /\ thr' = [thr EXCEPT ![t] =
                  IF storage_type = "minio"
                  THEN [IdleThread EXCEPT !.pc = "ctor_minio"]
                  ELSE [IdleThread EXCEPT !.pc = "ctor_local"]]
    /\ UNCHANGED <<STORAGE_TYPE, storage_provider, bucketExists, nextInst,
                   epochMade, retired, makeBucketCalls>>
    /\ UNCHANGED <<storeVars, probeVars, dbVars, svcVars, appVars>>

\* get_storage_provider, lines 34-53 up to the constructor call: return the
\* cached instance, or read the configuration and pick the class, or raise
\* ValueError for an unsupported type.
GetEnter(t) ==
    /\ thr[t].pc = "idle"
    /\ IF storage_provider # NoInst
       THEN /\ thr' = [thr EXCEPT ![t].res = [kind |-> "ret", inst |-> storage_provider]]
            /\ epochRet' = epochRet \cup {storage_provider}
       ELSE LET storage_type == Lower(STORAGE_TYPE) IN
            /\ epochRet' = epochRet
            /\ thr' = [thr EXCEPT ![t] =
                  IF storage_type = "local"
                  THEN [IdleThread EXCEPT !.pc = "ctor_local"]
                  ELSE IF storage_type = "minio"
                  THEN [IdleThread EXCEPT !.pc = "ctor_minio"]
                  ELSE [IdleThread EXCEPT !.res = [kind |-> "ValueError", inst |-> NoInst]]]
    /\ UNCHANGED <<STORAGE_TYPE, storage_provider, bucketExists, nextInst,
                   epochMade, retired, makeBucketCalls>>
    /\ UNCHANGED <<storeVars, probeVars, dbVars, svcVars, appVars>>

\* LocalStorageProvider.__init__: make the upload directory, return the object.
LocalCtor(t) ==
    /\ thr[t].pc = "ctor_local"
    /\ nextInst <= MaxInstances
    /\ LET inst == [id |-> nextInst, kind |-> "local"] IN
       /\ thr' = [thr EXCEPT ![t].pc = "assign", ![t].inst = inst]
       /\ epochMade' = epochMade \cup {inst}
    /\ nextInst' = nextInst + 1
    /\ dirs' = _ensure_dir_exists(dirs, UploadDir)
    /\ UNCHANGED <<STORAGE_TYPE, storage_provider, bucketExists, epochRet,
                   retired, makeBucketCalls>>
    /\ UNCHANGED <<files, objects, nextKey, probeVars, dbVars, svcVars, appVars>>

\* MinIOStorageProvider.__init__ up to bucket_exists(): it raises when the
\* credentials are missing or the server cannot be reached; otherwise the
\* thread learns whether the bucket exists.
MinioCtorCheck(t) ==
    /\ thr[t].pc = "ctor_minio"
    /\ nextInst <= MaxInstances
    /\ \/ /\ thr' = [thr EXCEPT ![t] =
                 [IdleThread EXCEPT !.res = [kind |-> "CtorError", inst |-> NoInst]]]
          /\ UNCHANGED <<nextInst, epochMade>>
       \/ /\ ~bucketExists
          /\ thr' = [thr EXCEPT ![t].pc = "make_bucket", ![t].saw = FALSE]
          /\ UNCHANGED <<nextInst, epochMade>>
       \/ /\ bucketExists
          /\ LET inst == [id |-> nextInst, kind |-> "minio"] IN
             /\ thr' = [thr EXCEPT ![t].pc = "assign", ![t].inst = inst, ![t].saw = TRUE]
             /\ epochMade' = epochMade \cup {inst}
          /\ nextInst' = nextInst + 1
    /\ UNCHANGED <<STORAGE_TYPE, storage_provider, bucketExists, epochRet,
                   retired, makeBucketCalls>>
    /\ UNCHANGED <<storeVars, probeVars, dbVars, svcVars, appVars>>

\* _ensure_bucket_exists, the make_bucket call after bucket_exists() said no:
\* the server refuses a bucket that exists by now and the constructor raises.
MinioMakeBucket(t) ==
    /\ thr[t].pc = "make_bucket"
    /\ makeBucketCalls' = makeBucketCalls + 1
    /\ IF bucketExists
       THEN /\ thr' = [thr EXCEPT ![t] =
                   [IdleThread EXCEPT !.res = [kind |-> "CtorError", inst |-> NoInst]]]
            /\ UNCHANGED <<bucketExists, nextInst, epochMade>>
       ELSE /\ bucketExists' = TRUE
            /\ LET inst == [id |-> nextInst, kind |-> "minio"] IN
               /\ thr' = [thr EXCEPT ![t].pc = "assign", ![t].inst = inst]
               /\ epochMade' = epochMade \cup {inst}
            /\ nextInst' = nextInst + 1
    /\ UNCHANGED <<STORAGE_TYPE, storage_provider, epochRet, retired>>
    /\ UNCHANGED <<storeVars, probeVars, dbVars, svcVars, appVars>>

\* _storage_provider = <the new object>  (lines 41, 45)
GetAssign(t) ==
    /\ thr[t].pc = "assign"
    /\ storage_provider' = thr[t].inst
    /\ thr' = [thr EXCEPT ![t].pc = "return"]
    /\ UNCHANGED <<STORAGE_TYPE, bucketExists, nextInst, epochMade, epochRet,
                   retired, makeBucketCalls>>
    /\ UNCHANGED <<storeVars, probeVars, dbVars, svcVars, appVars>>

\* return _storage_provider  (line 53: the global is read again)
GetReturn(t) ==
    /\ thr[t].pc = "return"
    /\ thr' = [thr EXCEPT ![t] =
          [IdleThread EXCEPT !.res = [kind |-> "ret", inst |-> storage_provider]]]
    /\ epochRet' = epochRet \cup {storage_provider}
    /\ UNCHANGED <<STORAGE_TYPE, storage_provider, bucketExists, nextInst,
                   epochMade, retired, makeBucketCalls>>
    /\ UNCHANGED <<storeVars, probeVars, dbVars, svcVars, appVars>>

\* A reset that forgets to clear the cache.
Reset_KeepsCache ==
    /\ Quiescent
    /\ retired' = retired \cup (IF storage_provider = NoInst THEN {} ELSE {storage_provider})
    /\ epochMade' = {}
    /\ epochRet' = {}
    /\ UNCHANGED <<STORAGE_TYPE, storage_provider, thr, bucketExists, nextInst,
                   makeBucketCalls>>
    /\ UNCHANGED <<storeVars, probeVars, dbVars, svcVars, appVars>>

\* reset_storage_provider (lines 56-64). It exists for tests: the harness calls
\* it between tests, when no request thread is inside the factory.
reset_storage_provider ==
    /\ Quiescent
    /\ storage_provider' = NoInst
    /\ retired' = retired \cup (IF storage_provider = NoInst THEN {} ELSE {storage_provider})
    /\ epochMade' = {}
    /\ epochRet' = {}
    /\ UNCHANGED <<STORAGE_TYPE, thr, bucketExists, nextInst, makeBucketCalls>>
    /\ UNCHANGED <<storeVars, probeVars, dbVars, svcVars, appVars>>

\* a test (or the deployment) sets Config.STORAGE_TYPE; like the reset, this
\* happens while no thread is inside the factory.
SetStorageType(v) ==
    /\ Quiescent
    /\ v # STORAGE_TYPE
    /\ STORAGE_TYPE' = v
    /\ UNCHANGED <<storage_provider, thr, bucketExists, nextInst, epochMade,
                   epochRet, retired, makeBucketCalls>>
    /\ UNCHANGED <<storeVars, probeVars, dbVars, svcVars, appVars>>

(***************************************************************************)
(* Requests and database rows                                              *)
(***************************************************************************)
Requests == 1..NumRequests

Users == {"alice", "bob"}

\* update_data of KnowledgebaseService.update: the fields present and their values
NoUpdate == [fields |-> {}, name |-> "", cover_image |-> NoKey,
             chunk_size |-> 0, chunk_overlap |-> 0]

\* a request slot: the handler it runs, where it stands, its locals (kb_id,
\* doc_id, object key, staged update), whether its transaction committed, what
\* its storage delete did ("none", "ok", "fail", "raise") and its result.
IdleReq == [op |-> "idle", pc |-> "idle", user |-> None, kb |-> 0, doc |-> 0,
            key |-> NoKey, upd |-> NoUpdate, dirty |-> {}, committed |-> FALSE,
            blob |-> "none", ok |-> FALSE, error |-> None]

\* the record of a provider call: what was called, with which key and disk
\* behaviour, what was at the key before, what came back, and whether the
\* call before was a delete of the same key ("no", "after_ok", "after_fail").
NoCall == [op |-> "none", key |-> NoKey, io |-> "ok", wasFile |-> FALSE,
           wasDir |-> FALSE, ok |-> FALSE, again |-> "no"]

(***************************************************************************)
(* Tokens (app/util/jwt_utils.py): values                                  *)
(***************************************************************************)
\* a JWT: its claims and the key its signature was made with; form "none" is
\* no token at all (None or ''), form "garbage" a string that is not a JWT
NoToken == [form |-> "none", user_id |-> None, username |-> None,
            exp |-> 0, iat |-> 0, key |-> None]

\* verify_token returning None
NoPayload == [user_id |-> None, username |-> None, exp |-> 0, iat |-> 0]

\* nothing held yet; `at` and `hours` remember the call that issued the token
NoHeld == [tok |-> NoToken, origin |-> "none", at |-> 0, hours |-> 0,
           who |-> [user_id |-> None, username |-> None]]

\* the record of the last call: what was called, the service calls the
\* handler made, what it answered, and the shape of what the service returned
NoResp == [op |-> "none", code |-> 0, message |-> "", payload |-> NoPayload,
           rows |-> {}, error |-> None, called |-> {}, returned |-> "nothing",
           key |-> NoKey]

\* the shape of a returned pair: whether its result is there (not None, not
\* False) and whether its error is
Returned(result, error) ==
    CASE result /\ error = None -> "(result, None)"
      [] ~result /\ error # None -> "(None, error)"
      [] ~result /\ error = None -> "(None, None)"
      [] OTHER -> "(result, error)"

\* the shape of a returned Optional[User]
Bare(result) == IF result THEN "result" ELSE "None"

\* a request body value (JSON): a number, held in tenths (509 is 50.9), a
\* string, or null
NoValue == [kind |-> "null", tenths |-> 0, text |-> ""]

\* the body of PUT /settings: the keys it has and their values
NoData == [fields |-> {}, top_k |-> NoValue, llm_temperature |-> NoValue,
           retrieval_mode |-> NoValue]

\* a session of SettingsService.update between its SELECT and its commit:
\* whether the SELECT found the record, the attributes of the object it holds
\* and the columns the flush will write
NoRow == [id |-> None, top_k |-> 0, llm_temperature |-> 0, retrieval_mode |-> ""]

NoSession == [pc |-> "idle", found |-> FALSE, obj |-> NoRow, dirty |-> {},
              data |-> NoData]

NoSettings == [table |-> {}, sessions |-> [r \in Requests |-> NoSession]]

InitApp ==
    /\ clock = 0
    /\ SECRET_KEY = "s1"
    /\ held = NoHeld
    /\ settings = NoSettings
    /\ users = {}
    /\ resp = NoResp

InitStore ==
    /\ files = {}
    /\ dirs = {<<>>, <<"srv">>}
    /\ objects = {}
    /\ nextKey = 1

InitIdleServices ==
    /\ probe = NoCall
    /\ live = {}
    /\ everUploaded = {}
    /\ kbs = {}
    /\ docs = {}
    /\ nextId = 1
    /\ req = [r \in Requests |-> IdleReq]
    /\ removed = {}
    /\ InitApp

InitFactory ==
    /\ STORAGE_TYPE \in ConfigValues
    /\ storage_provider = NoInst
    /\ thr = [t \in Threads |-> IdleThread]
    /\ bucketExists \in BOOLEAN
    /\ nextInst = 1
    /\ epochMade = {}
    /\ epochRet = {}
    /\ retired = {}
    /\ makeBucketCalls = 0
    /\ InitStore
    /\ InitIdleServices

NextFactory ==
    \/ \E t \in Threads : GetEnter(t)
    \/ \E t \in Threads : LocalCtor(t)
    \/ \E t \in Threads : MinioCtorCheck(t)
    \/ \E t \in Threads : MinioMakeBucket(t)
    \/ \E t \in Threads : GetAssign(t)
    \/ \E t \in Threads : GetReturn(t)
    \/ reset_storage_provider
    \/ \E v \in ConfigValues : SetStorageType(v)

SpecFactory == InitFactory /\ [][NextFactory]_vars

(***************************************************************************)
(* Storage factory: properties                                             *)
(***************************************************************************)
Building == {"ctor_local", "ctor_minio", "make_bucket", "assign", "return"}

\* C7: between two resets every successful get_storage_provider call returns
\* the same instance and at most one provider is constructed, whatever
\* Config.STORAGE_TYPE is changed to afterwards.
FactorySingleton ==
    /\ Cardinality(epochRet) <= 1
    /\ Cardinality(epochMade) <= 1

\* C8: concurrent first access is safe: a single thread is ever inside the
\* construction path, the bucket is created at most once, and no thread is
\* handed an instance other than the one in the cache.
ConcurrentFirstAccessSafe ==
    /\ \A t1, t2 \in Threads :
          (thr[t1].pc \in Building /\ thr[t2].pc \in Building) => t1 = t2
    /\ makeBucketCalls <= 1
    /\ \A t \in Threads :
          (thr[t].pc = "return" /\ storage_provider # NoInst)
              => thr[t].inst = storage_provider

\* C9: with an unsupported Config.STORAGE_TYPE no thread ever enters a
\* constructor, and a call that finds the cache empty raises ValueError,
\* constructs nothing and leaves the cache empty.
FactoryFailFast ==
    /\ [](\A t \in Threads :
            thr[t].pc \in Building => Lower(STORAGE_TYPE) \in Supported)
    /\ [][\A t \in Threads :
            ( /\ thr[t].pc = "idle"
              /\ thr'[t] # thr[t]
              /\ storage_provider = NoInst
              /\ Lower(STORAGE_TYPE) \notin Supported )
            => ( /\ thr'[t].pc = "idle"
                 /\ thr'[t].res.kind = "ValueError"
                 /\ storage_provider' = NoInst
                 /\ nextInst' = nextInst )]_vars

FactoryFailFastWitness ==
    /\ Lower(STORAGE_TYPE) \notin Supported
    /\ storage_provider = NoInst
    /\ retired # {}
    /\ \E t \in Threads : thr[t].res.kind = "ValueError"

\* C10: a reset empties the cache; no instance discarded by a reset is cached
\* or returned again, and the instance a later call stores is a new one of
\* the class Config.STORAGE_TYPE names at that time.
FactoryResetDiscards ==
    /\ [](/\ storage_provider \notin retired
          /\ epochRet \cap retired = {})
    /\ [][reset_storage_provider => storage_provider' = NoInst]_vars
    /\ [][\A t \in Threads :
            (thr[t].pc = "assign" /\ thr'[t].pc = "return")
            => ( /\ storage_provider'.kind = Lower(STORAGE_TYPE)
                 /\ storage_provider' \notin retired )]_vars

FactoryResetWitness ==
    /\ storage_provider # NoInst
    /\ epochRet = {storage_provider}
    /\ \E old \in retired : old.kind # storage_provider.kind

(***************************************************************************)
(* A provider instance used directly: SpecStorage                          *)
(***************************************************************************)
\* (filename, biz_type) pairs given to upload
UploadInputs == {<<"report.PDF", "documents">>, <<"README", "covers">>}

\* every key generate_object_key can return within the bound
GeneratedKeys ==
    {generate_object_key(u[1], u[2], n) : u \in UploadInputs, n \in 1..MaxKeys}

\* keys a caller passes to delete: generated ones (uploaded or not), the empty
\* key, keys naming a directory, a key nothing was stored at.
ProbeKeys ==
    GeneratedKeys \cup {NoKey, <<"documents">>, <<"documents", Year, Month>>,
                        <<"avatars", "me.png">>}

Kind == storage_provider.kind

\* what is at the key before a call
IsFileAt(object_key) ==
    IF Kind = "local" THEN Resolve(dirs, _get_full_path(object_key)) \in files
    ELSE object_key \in objects

IsDirAt(object_key) ==
    Kind = "local" /\ Resolve(dirs, _get_full_path(object_key)) \in dirs

Called(op, key, io, ok) ==
    [op |-> op, key |-> key, io |-> io, wasFile |-> IsFileAt(key),
     wasDir |-> IsDirAt(key), ok |-> ok,
     again |-> IF op = "delete" /\ probe.op = "delete" /\ probe.key = key
               THEN (IF probe.ok THEN "after_ok" ELSE "after_fail")
               ELSE "no"]

StUpload(filename, biz_type, io) ==
    /\ nextKey <= MaxKeys
    /\ LET r == ProvUpload(Kind, filename, biz_type, nextKey, io) IN
       /\ files' = r.files
       /\ dirs' = r.dirs
       /\ objects' = r.objects
       /\ probe' = Called("upload", r.key, io, r.error = None)
       /\ live' = IF r.error = None THEN live \cup {r.key} ELSE live
       /\ everUploaded' = IF r.error = None THEN everUploaded \cup {r.key}
                          ELSE everUploaded
    /\ nextKey' = nextKey + 1
    /\ UNCHANGED <<appVars, factoryVars, dbVars, svcVars>>

StDelete(object_key, io) ==
    /\ LET r == ProvDelete(Kind, object_key, io) IN
       /\ files' = r.files
       /\ dirs' = r.dirs
       /\ objects' = r.objects
       /\ probe' = Called("delete", object_key, io, r.ok)
    /\ live' = live \ {object_key}
    /\ UNCHANGED <<appVars, factoryVars, nextKey, everUploaded, dbVars, svcVars>>

\* the state after the first successful get_storage_provider call
InitProvider(kind) ==
    /\ STORAGE_TYPE = kind
    /\ storage_provider = [id |-> 1, kind |-> kind]
    /\ thr = [t \in Threads |-> IdleThread]
    /\ bucketExists = (kind = "minio")
    /\ nextInst = 2
    /\ epochMade = {storage_provider}
    /\ epochRet = {storage_provider}
    /\ retired = {}
    /\ makeBucketCalls = 0
    /\ files = {}
    /\ dirs = IF kind = "local" THEN _ensure_dir_exists({<<>>, <<"srv">>}, UploadDir)
              ELSE {<<>>, <<"srv">>}
    /\ objects = {}
    /\ nextKey = 1

InitStorage ==
    /\ \E kind \in Supported : InitProvider(kind)
    /\ InitIdleServices

NextStorage ==
    \/ \E u \in UploadInputs, io \in IoOutcomes \cup {"partial"} :
          StUpload(u[1], u[2], io)
    \/ \E k \in ProbeKeys, io \in IoOutcomes : StDelete(k, io)

SpecStorage == InitStorage /\ [][NextStorage]_vars

KbOwned(kb_id, user_id) == {k \in kbs : k.id = kb_id /\ k.user_id = user_id}

\* the knowledge base exists and belongs to somebody else
Foreign(kb_id, user_id) == \E k \in kbs : k.id = kb_id /\ k.user_id # user_id

\* session.query(Document).filter(id == doc_id, kb_id == kb_id)
DocIn(doc_id, kb_id) == {d \in docs : d.id = doc_id /\ d.kb_id = kb_id}

\* DocumentStatus.is_valid
DocumentStatus == {"pending", "processing", "completed", "failed"}

\* the outcome of a storage delete issued by a handler ("raise": the call, or
\* the provider lookup before it, raised and the handler's except caught it)
BlobOutcomes == {"ok", "fail", "raise"}

\* storage.delete(key) with outcome o: the store afterwards and what came back
DeleteBlob(object_key, o) ==
    IF o = "raise"
    THEN [files |-> files, dirs |-> dirs, objects |-> objects, blob |-> "raise"]
    ELSE LET r == ProvDelete(Kind, object_key, o)
         IN  [files |-> r.files, dirs |-> r.dirs, objects |-> r.objects,
              blob |-> IF r.ok THEN "ok" ELSE "fail"]

\* keys whose blob the step takes out of storage
Gone(r) ==
    IF Kind = "local"
    THEN {SubSeq(p, Len(UploadDir) + 1, Len(p)) : p \in files \ r.files}
    ELSE objects \ r.objects

\* the request once the handler has returned: the answer, and of its locals
\* only what the answer is about
Answer(q, ok, error) ==
    [IdleReq EXCEPT !.op = q.op, !.pc = "done", !.doc = q.doc, !.key = q.key,
                    !.committed = q.committed, !.blob = q.blob,
                    !.ok = ok, !.error = error]

Respond(r, ok, error) == [req EXCEPT ![r] = Answer(req[r], ok, error)]

\* a worker takes a request only when the workers before it are busy
Free(r) == req[r].pc = "idle" /\ \A q \in Requests : q < r => req[q].pc # "idle"

(***************************************************************************)
(* routes/document.py upload_document and DocumentService.create           *)
(***************************************************************************)
\* upload_document up to the metadata insert: storage.upload of the file.
UploadDocStore(r, user_id, kb_id, io) ==
    /\ Free(r)
    /\ nextKey <= MaxKeys
    /\ LET u == ProvUpload(Kind, "report.PDF", "documents", nextKey, io) IN
       /\ files' = u.files
       /\ dirs' = u.dirs
       /\ objects' = u.objects
       /\ req' = [req EXCEPT ![r] =
             IF u.error # None
             THEN Answer([IdleReq EXCEPT !.op = "upload_document"],
                         FALSE, "upload_failed")
             ELSE [IdleReq EXCEPT !.op = "upload_document", !.pc = "create",
                                  !.user = user_id, !.kb = kb_id, !.key = u.key]]
    /\ nextKey' = nextKey + 1
    /\ UNCHANGED <<appVars, factoryVars, probeVars, dbVars, removed>>

\* DocumentService.create: ownership check, insert, commit. dbio = "fail" is
\* the flush or the commit raising; the except turns it into an error.
DocCreate(r, dbio) ==
    /\ req[r].op = "upload_document"
    /\ req[r].pc = "create"
    /\ IF KbOwned(req[r].kb, req[r].user) = {}
       THEN /\ req' = [req EXCEPT ![r].pc = "rollback", ![r].error = "kb_not_found"]
            /\ UNCHANGED <<docs, nextId>>
       ELSE IF dbio = "fail"
       THEN /\ req' = [req EXCEPT ![r].pc = "rollback", ![r].error = "internal"]
            /\ UNCHANGED <<docs, nextId>>
       ELSE /\ nextId <= MaxIds
            /\ docs' = docs \cup {[id |-> nextId, kb_id |-> req[r].kb,
                                   file_path |-> req[r].key, status |-> "pending"]}
            /\ nextId' = nextId + 1
            /\ req' = [req EXCEPT ![r] =
                  Answer([req[r] EXCEPT !.doc = nextId, !.committed = TRUE], TRUE, None)]
    /\ UNCHANGED <<appVars, factoryVars, storeVars, probeVars, kbs, removed>>

\* A handler that answers the error without deleting the uploaded file.
UploadRollback_Skipped(r, io) ==
    /\ req[r].op = "upload_document"
    /\ req[r].pc = "rollback"
    /\ req' = [req EXCEPT ![r] =
          Answer([req[r] EXCEPT !.blob = "ok"], FALSE, req[r].error)]
    /\ UNCHANGED <<appVars, factoryVars, storeVars, probeVars, dbVars, removed>>

\* A handler that answers the failure of the rollback delete in place of the
\* error of the insert.
UploadRollback_ReportsDelete(r, io) ==
    /\ req[r].op = "upload_document"
    /\ req[r].pc = "rollback"
    /\ LET d == DeleteBlob(req[r].key, io) IN
       /\ files' = d.files
       /\ dirs' = d.dirs
       /\ objects' = d.objects
       /\ removed' = removed \cup Gone(d)
       /\ req' = [req EXCEPT ![r] =
             Answer([req[r] EXCEPT !.blob = d.blob], FALSE,
                    IF d.blob = "ok" THEN req[r].error ELSE "rollback_failed")]
    /\ UNCHANGED <<appVars, factoryVars, nextKey, probeVars, dbVars>>

\* upload_document lines 117-124: the insert failed, delete the uploaded file
\* (the result of storage.delete is not looked at) and answer the error.
UploadRollback(r, io) ==
    /\ req[r].op = "upload_document"
    /\ req[r].pc = "rollback"
    /\ LET d == DeleteBlob(req[r].key, io) IN
       /\ files' = d.files
       /\ dirs' = d.dirs
       /\ objects' = d.objects
       /\ removed' = removed \cup Gone(d)
       /\ req' = [req EXCEPT ![r] =
             Answer([req[r] EXCEPT !.blob = d.blob], FALSE, req[r].error)]
    /\ UNCHANGED <<appVars, factoryVars, nextKey, probeVars, dbVars>>

(***************************************************************************)
(* DocumentService.delete and update_status                                *)
(***************************************************************************)
\* A delete whose session does not look at the status of the document.
DocDeleteTxn_NoStatusGuard(r, user_id, kb_id, doc_id) ==
    /\ Free(r)
    /\ LET start == [IdleReq EXCEPT !.op = "delete_document", !.doc = doc_id]
           found == DocIn(doc_id, kb_id)
       IN  req' = [req EXCEPT ![r] =
             IF KbOwned(kb_id, user_id) = {}
             THEN Answer(start, FALSE, "kb_not_found")
             ELSE IF found = {}
             THEN Answer(start, FALSE, "doc_not_found")
             ELSE LET doc == CHOOSE d \in found : TRUE IN
                  [start EXCEPT !.pc = "commit", !.key = doc.file_path]]
    /\ UNCHANGED <<appVars, factoryVars, storeVars, probeVars, dbVars, removed>>

\* delete, the body of the session: ownership, existence, lifecycle guard.
DocDeleteTxn(r, user_id, kb_id, doc_id) ==
    /\ Free(r)
    /\ LET start == [IdleReq EXCEPT !.op = "delete_document", !.doc = doc_id]
           found == DocIn(doc_id, kb_id)
       IN  req' = [req EXCEPT ![r] =
             IF KbOwned(kb_id, user_id) = {}
             THEN Answer(start, FALSE, "kb_not_found")
             ELSE IF found = {}
             THEN Answer(start, FALSE, "doc_not_found")
             ELSE LET doc == CHOOSE d \in found : TRUE IN
                  IF doc.status = "processing"
                  THEN Answer(start, FALSE, "processing")
                  ELSE [start EXCEPT !.pc = "commit", !.key = doc.file_path]]
    /\ UNCHANGED <<appVars, factoryVars, storeVars, probeVars, dbVars, removed>>

\* A delete that removes the file inside the session, before the commit.
DocDeleteCommit_BlobFirst(r, dbio) ==
    /\ req[r].op = "delete_document"
    /\ req[r].pc = "commit"
    /\ LET d == DeleteBlob(req[r].key, "ok") IN
       /\ files' = d.files
       /\ dirs' = d.dirs
       /\ objects' = d.objects
       /\ removed' = removed \cup Gone(d)
       /\ IF dbio = "fail"
          THEN /\ req' = [req EXCEPT ![r] =
                     Answer([req[r] EXCEPT !.blob = d.blob], FALSE, "internal")]
               /\ UNCHANGED docs
          ELSE /\ docs' = {x \in docs : x.id # req[r].doc}
               /\ req' = [req EXCEPT ![r] =
                     Answer([req[r] EXCEPT !.blob = d.blob, !.committed = TRUE],
                            TRUE, None)]
    /\ UNCHANGED <<appVars, factoryVars, nextKey, probeVars, kbs, nextId>>

\* delete, leaving the session: session.delete(doc) is flushed and committed,
\* or the commit raises, the transaction is rolled back and the except answers.
DocDeleteCommit(r, dbio) ==
    /\ req[r].op = "delete_document"
    /\ req[r].pc = "commit"
    /\ IF dbio = "fail"
       THEN /\ req' = Respond(r, FALSE, "internal")
            /\ UNCHANGED docs
       ELSE /\ docs' = {x \in docs : x.id # req[r].doc}
            /\ req' = [req EXCEPT ![r].pc = "blob", ![r].committed = TRUE]
    /\ UNCHANGED <<appVars, factoryVars, storeVars, probeVars, kbs, nextId, removed>>

\* delete after the session (lines 238-242) with _delete_file (310-328):
\* whatever the storage delete does, the answer is (True, None).
DocDeleteBlob(r, io) ==
    /\ req[r].op = "delete_document"
    /\ req[r].pc = "blob"
    /\ IF req[r].key # NoKey
       THEN LET d == DeleteBlob(req[r].key, io) IN
            /\ files' = d.files
            /\ dirs' = d.dirs
            /\ objects' = d.objects
            /\ removed' = removed \cup Gone(d)
            /\ req' = [req EXCEPT ![r] =
                  Answer([req[r] EXCEPT !.blob = d.blob], TRUE, None)]
       ELSE /\ req' = Respond(r, TRUE, None)
            /\ UNCHANGED <<files, dirs, objects, removed>>
    /\ UNCHANGED <<appVars, factoryVars, nextKey, probeVars, dbVars>>

\* update_status: validate the value, check ownership and existence, write the
\* status and commit. Any valid status may replace any other.
UpdateStatus(user_id, kb_id, doc_id, status) ==
    /\ status \in DocumentStatus
    /\ KbOwned(kb_id, user_id) # {}
    /\ DocIn(doc_id, kb_id) # {}
    /\ docs' = {IF d.id = doc_id THEN [d EXCEPT !.status = status] ELSE d : d \in docs}
    /\ docs' # docs
    /\ UNCHANGED <<appVars, factoryVars, storeVars, probeVars, kbs, nextId, svcVars>>

(***************************************************************************)
(* KnowledgebaseService (app/services/knowledgebase_service.py)            *)
(***************************************************************************)
\* create: insert and commit; the unique index on name raises IntegrityError.
\* The cover_image of the caller is stored as given.
KbCreate(user_id, name, chunk_size, chunk_overlap, cover_image) ==
    /\ nextId <= MaxIds
    /\ \A k \in kbs : k.name # name
    /\ kbs' = kbs \cup {[id |-> nextId, user_id |-> user_id, name |-> name,
                         cover_image |-> cover_image, chunk_size |-> chunk_size,
                         chunk_overlap |-> chunk_overlap]}
    /\ nextId' = nextId + 1
    /\ UNCHANGED <<appVars, factoryVars, storeVars, probeVars, docs, svcVars>>

\* the value update_data.get(f, kb.f) of a column
Updated(kb, upd, f) == IF f \in upd.fields THEN upd[f] ELSE kb[f]

\* update, the body of the session: ownership, the chunk check against the
\* stored values, cover_image_changed, setattr of every field.
KbUpdateBody(user_id, kb_id, upd) ==
    LET start == [IdleReq EXCEPT !.op = "update_kb", !.kb = kb_id, !.upd = upd]
        found == KbOwned(kb_id, user_id)
    IN  IF upd.fields = {}
        THEN Answer(start, FALSE, "no_fields")
        ELSE IF found = {}
        THEN Answer(start, FALSE, "kb_not_found")
        ELSE LET kb == CHOOSE k \in found : TRUE IN
             IF Updated(kb, upd, "chunk_overlap") >= Updated(kb, upd, "chunk_size")
             THEN Answer(start, FALSE, "chunk")
             ELSE [start EXCEPT
                     !.pc = "commit",
                     !.dirty = {f \in upd.fields : upd[f] # kb[f]},
                     !.key = IF /\ "cover_image" \in upd.fields
                                /\ kb.cover_image # NoKey
                                /\ upd.cover_image # kb.cover_image
                             THEN kb.cover_image ELSE NoKey]

KbUpdateTxn(r, user_id, kb_id, upd) ==
    /\ Free(r)
    /\ req' = [req EXCEPT ![r] = KbUpdateBody(user_id, kb_id, upd)]
    /\ UNCHANGED <<appVars, factoryVars, storeVars, probeVars, dbVars, removed>>

\* An update on a table without the unique index on name.
KbUpdateCommit_NoUnique(r, dbio) ==
    /\ req[r].op = "update_kb"
    /\ req[r].pc = "commit"
    /\ LET upd == req[r].upd
           dirty == req[r].dirty
           row == {k \in kbs : k.id = req[r].kb}
       IN
       IF dbio = "fail" \/ (dirty # {} /\ row = {})
       THEN /\ req' = Respond(r, FALSE, "internal")
            /\ UNCHANGED kbs
       ELSE /\ kbs' = {IF k.id = req[r].kb
                       THEN [f \in DOMAIN k |-> IF f \in dirty THEN upd[f] ELSE k[f]]
                       ELSE k : k \in kbs}
            /\ req' = [req EXCEPT ![r] =
                  IF req[r].key # NoKey
                  THEN [req[r] EXCEPT !.pc = "blob", !.committed = TRUE]
                  ELSE Answer([req[r] EXCEPT !.committed = TRUE], TRUE, None)]
    /\ UNCHANGED <<appVars, factoryVars, storeVars, probeVars, docs, nextId, removed>>

\* An update whose session commits what it has flushed when the UPDATE of the
\* name raises: the other changed columns stay written.
KbUpdateCommit_NoRollback(r, dbio) ==
    /\ req[r].op = "update_kb"
    /\ req[r].pc = "commit"
    /\ LET upd == req[r].upd
           dirty == req[r].dirty
           row == {k \in kbs : k.id = req[r].kb}
       IN
       IF dbio = "fail" \/ (dirty # {} /\ row = {})
       THEN /\ req' = Respond(r, FALSE, "internal")
            /\ UNCHANGED kbs
       ELSE IF "name" \in dirty /\ \E k \in kbs : k.id # req[r].kb /\ k.name = upd.name
       THEN /\ req' = Respond(r, FALSE, "name_exists")
            /\ kbs' = {IF k.id = req[r].kb
                       THEN [f \in DOMAIN k |-> IF f \in dirty \ {"name"}
                                                THEN upd[f] ELSE k[f]]
                       ELSE k : k \in kbs}
       ELSE /\ kbs' = {IF k.id = req[r].kb
                       THEN [f \in DOMAIN k |-> IF f \in dirty THEN upd[f] ELSE k[f]]
                       ELSE k : k \in kbs}
            /\ req' = [req EXCEPT ![r] =
                  IF req[r].key # NoKey
                  THEN [req[r] EXCEPT !.pc = "blob", !.committed = TRUE]
                  ELSE Answer([req[r] EXCEPT !.committed = TRUE], TRUE, None)]
    /\ UNCHANGED <<appVars, factoryVars, storeVars, probeVars, docs, nextId, removed>>

\* update, the flush and the commit on leaving the session: the UPDATE of the
\* changed columns. It raises when the name is taken (IntegrityError), when
\* the row is gone (StaleDataError) or when the database fails.
KbUpdateCommit(r, dbio) ==
    /\ req[r].op = "update_kb"
    /\ req[r].pc = "commit"
    /\ LET upd == req[r].upd
           dirty == req[r].dirty
           row == {k \in kbs : k.id = req[r].kb}
       IN
       IF dbio = "fail" \/ (dirty # {} /\ row = {})
       THEN /\ req' = Respond(r, FALSE, "internal")
            /\ UNCHANGED kbs
       ELSE IF "name" \in dirty /\ \E k \in kbs : k.id # req[r].kb /\ k.name = upd.name
       THEN /\ req' = Respond(r, FALSE, "name_exists")
            /\ UNCHANGED kbs
       ELSE /\ kbs' = {IF k.id = req[r].kb
                       THEN [f \in DOMAIN k |-> IF f \in dirty THEN upd[f] ELSE k[f]]
                       ELSE k : k \in kbs}
            /\ req' = [req EXCEPT ![r] =
                  IF req[r].key # NoKey
                  THEN [req[r] EXCEPT !.pc = "blob", !.committed = TRUE]
                  ELSE Answer([req[r] EXCEPT !.committed = TRUE], TRUE, None)]
    /\ UNCHANGED <<appVars, factoryVars, storeVars, probeVars, docs, nextId, removed>>

\* update after the session (lines 297-301): _delete_cover_image(old cover),
\* whose failure is logged only.
KbUpdateBlob(r, io) ==
    /\ req[r].op = "update_kb"
    /\ req[r].pc = "blob"
    /\ LET d == DeleteBlob(req[r].key, io) IN
       /\ files' = d.files
       /\ dirs' = d.dirs
       /\ objects' = d.objects
       /\ removed' = removed \cup Gone(d)
       /\ req' = [req EXCEPT ![r] =
             Answer([req[r] EXCEPT !.blob = d.blob], TRUE, None)]
    /\ UNCHANGED <<appVars, factoryVars, nextKey, probeVars, dbVars>>

\* A delete that looks the knowledge base up by id alone.
KbDeleteTxn_NoOwnerCheck(r, user_id, kb_id) ==
    /\ Free(r)
    /\ LET start == [IdleReq EXCEPT !.op = "delete_kb", !.kb = kb_id]
           found == {k \in kbs : k.id = kb_id}
       IN  req' = [req EXCEPT ![r] =
             IF found = {}
             THEN Answer(start, FALSE, "kb_not_found")
             ELSE [start EXCEPT !.pc = "commit",
                                !.key = (CHOOSE k \in found : TRUE).cover_image]]
    /\ UNCHANGED <<appVars, factoryVars, storeVars, probeVars, dbVars, removed>>

\* delete, the body of the session: ownership, image_to_delete, session.delete.
KbDeleteTxn(r, user_id, kb_id) ==
    /\ Free(r)
    /\ LET start == [IdleReq EXCEPT !.op = "delete_kb", !.kb = kb_id]
           found == KbOwned(kb_id, user_id)
       IN  req' = [req EXCEPT ![r] =
             IF found = {}
             THEN Answer(start, FALSE, "kb_not_found")
             ELSE [start EXCEPT !.pc = "commit",
                                !.key = (CHOOSE k \in found : TRUE).cover_image]]
    /\ UNCHANGED <<appVars, factoryVars, storeVars, probeVars, dbVars, removed>>

\* A delete on a schema whose documents.kb_id has no ON DELETE CASCADE and
\* whose rows stay behind.
KbDeleteCommit_NoCascade(r, dbio) ==
    /\ req[r].op = "delete_kb"
    /\ req[r].pc = "commit"
    /\ IF dbio = "fail"
       THEN /\ req' = Respond(r, FALSE, "internal")
            /\ UNCHANGED <<kbs, docs>>
       ELSE /\ kbs' = {k \in kbs : k.id # req[r].kb}
            /\ UNCHANGED docs
            /\ req' = [req EXCEPT ![r] =
                  IF req[r].key # NoKey
                  THEN [req[r] EXCEPT !.pc = "blob", !.committed = TRUE]
                  ELSE Answer([req[r] EXCEPT !.committed = TRUE], TRUE, None)]
    /\ UNCHANGED <<appVars, factoryVars, storeVars, probeVars, nextId, removed>>

\* delete, the commit: the row goes, and with it (ON DELETE CASCADE on
\* documents.kb_id) every document of the knowledge base, whatever its status.
KbDeleteCommit(r, dbio) ==
    /\ req[r].op = "delete_kb"
    /\ req[r].pc = "commit"
    /\ IF dbio = "fail"
       THEN /\ req' = Respond(r, FALSE, "internal")
            /\ UNCHANGED <<kbs, docs>>
       ELSE /\ kbs' = {k \in kbs : k.id # req[r].kb}
            /\ docs' = {d \in docs : d.kb_id # req[r].kb}
            /\ req' = [req EXCEPT ![r] =
                  IF req[r].key # NoKey
                  THEN [req[r] EXCEPT !.pc = "blob", !.committed = TRUE]
                  ELSE Answer([req[r] EXCEPT !.committed = TRUE], TRUE, None)]
    /\ UNCHANGED <<appVars, factoryVars, storeVars, probeVars, nextId, removed>>

\* delete after the session (lines 352-356): _delete_cover_image(cover).
KbDeleteBlob(r, io) ==
    /\ req[r].op = "delete_kb"
    /\ req[r].pc = "blob"
    /\ LET d == DeleteBlob(req[r].key, io) IN
       /\ files' = d.files
       /\ dirs' = d.dirs
       /\ objects' = d.objects
       /\ removed' = removed \cup Gone(d)
       /\ req' = [req EXCEPT ![r] =
             Answer([req[r] EXCEPT !.blob = d.blob], TRUE, None)]
    /\ UNCHANGED <<appVars, factoryVars, nextKey, probeVars, dbVars>>

(***************************************************************************)
(* routes/upload.py upload_image, and the end of a request                 *)
(***************************************************************************)
\* upload_image: storage.upload of a validated image; the key goes to the caller.
UploadImage(io) ==
    /\ nextKey <= MaxKeys
    /\ LET u == ProvUpload(Kind, "cover.png", "covers", nextKey, io) IN
       /\ files' = u.files
       /\ dirs' = u.dirs
       /\ objects' = u.objects
    /\ nextKey' = nextKey + 1
    /\ UNCHANGED <<appVars, factoryVars, probeVars, dbVars, svcVars>>

\* the response is sent and the worker takes the next request
Finish(r) ==
    /\ req[r].pc = "done"
    /\ req' = [req EXCEPT ![r] = IdleReq]
    /\ UNCHANGED <<appVars, factoryVars, storeVars, probeVars, dbVars, removed>>

(***************************************************************************)
(* The services together: concurrent requests over one database and store  *)
(***************************************************************************)
Ids == 1..MaxIds
Names == {"notes", "papers"}

\* the keys the storage has handed out and a caller can send back
KnownKeys ==
    removed \cup (IF Kind = "local"
                  THEN {SubSeq(p, Len(UploadDir) + 1, Len(p)) : p \in files}
                  ELSE objects)

\* update_data of the requests: a new cover, or nothing
UpdateInputs ==
    {NoUpdate}
    \cup {[NoUpdate EXCEPT !.fields = {"cover_image"}, !.cover_image = c] :
             c \in KnownKeys \cup {NoKey}}

\* Documents: uploads, deletes and status changes of documents next to the
\* creation and deletion of knowledge bases (which have no cover here).
InitDocs == InitStorage

NextDocs ==
    \/ \E r \in Requests, u \in Users, kb \in Ids, io \in IoOutcomes :
          UploadDocStore(r, u, kb, io)
    \/ \E r \in Requests, dbio \in IoOutcomes : DocCreate(r, dbio)
    \/ \E r \in Requests, io \in IoOutcomes : UploadRollback(r, io)
    \/ \E r \in Requests, u \in Users, kb \in Ids, d \in Ids : DocDeleteTxn(r, u, kb, d)
    \/ \E r \in Requests, dbio \in IoOutcomes : DocDeleteCommit(r, dbio)
    \/ \E r \in Requests, io \in BlobOutcomes : DocDeleteBlob(r, io)
    \/ \E u \in Users, kb \in Ids, d \in Ids, st \in {"processing", "completed", "archived"} :
          UpdateStatus(u, kb, d, st)
    \/ \E u \in Users, n \in Names : KbCreate(u, n, 200, 50, NoKey)
    \/ \E r \in Requests, u \in Users, kb \in Ids : KbDeleteTxn(r, u, kb)
    \/ \E r \in Requests, dbio \in IoOutcomes : KbDeleteCommit(r, dbio)
    \/ \E r \in Requests : Finish(r)

SpecDocs == InitDocs /\ [][NextDocs]_vars

\* Covers: image uploads next to the creation, update and deletion of the
\* knowledge bases of one user, whose cover_image is whatever the caller sends.
InitCovers == InitStorage

NextCovers ==
    \/ \E io \in IoOutcomes : UploadImage(io)
    \/ \E u \in {"alice"}, n \in Names, c \in KnownKeys \cup {NoKey} :
          KbCreate(u, n, 200, 50, c)
    \/ \E r \in Requests, u \in {"alice"}, kb \in Ids, upd \in UpdateInputs :
          KbUpdateTxn(r, u, kb, upd)
    \/ \E r \in Requests, dbio \in IoOutcomes : KbUpdateCommit(r, dbio)
    \/ \E r \in Requests, io \in BlobOutcomes : KbUpdateBlob(r, io)
    \/ \E r \in Requests, u \in {"alice"}, kb \in Ids : KbDeleteTxn(r, u, kb)
    \/ \E r \in Requests, dbio \in IoOutcomes : KbDeleteCommit(r, dbio)
    \/ \E r \in Requests, io \in BlobOutcomes : KbDeleteBlob(r, io)
    \/ \E r \in Requests : Finish(r)

SpecCovers == InitCovers /\ [][NextCovers]_vars

(***************************************************************************)
(* Services: properties                                                    *)
(***************************************************************************)
\* a finished upload_document request whose file was stored and whose
\* metadata insert returned an error
InsertFailedAfterUpload(r) ==
    /\ req[r].op = "upload_document"
    /\ req[r].pc = "done"
    /\ req[r].key # NoKey
    /\ req[r].error # None

\* C1 as stated: when storage.upload succeeded and doc_service.create returned
\* an error, the uploaded key no longer exists once the request has finished.
UploadCompensated ==
    \A r \in Requests :
        InsertFailedAfterUpload(r) => ~ProvExists(Kind, req[r].key, "ok")

\* C1 as amended: when storage.upload succeeded and doc_service.create returned
\* an error, the handler has called storage.delete on the key before answering,
\* no Document row names the key, and the key no longer exists when that
\* delete returned (True, None); when it returned (False, error) the file stays.
UploadCompensatedWhenDeleteSucceeds ==
    \A r \in Requests :
        InsertFailedAfterUpload(r) =>
            /\ req[r].blob \in {"ok", "fail"}
            /\ ~req[r].ok
            /\ \A d \in docs : d.file_path # req[r].key
            /\ req[r].blob = "ok" <=> ~ProvExists(Kind, req[r].key, "ok")

\* the insert failed on the database and the rollback removed the file
UploadCompensatedWitness ==
    \E r \in Requests :
        /\ InsertFailedAfterUpload(r)
        /\ req[r].error = "internal"
        /\ req[r].blob = "ok"
        /\ req[r].key \in removed

\* C2: no Knowledgebase row has a cover_image whose blob has been deleted
\* (the consequence the claim draws from deleting the old cover only after
\* the commit of the new one).
NoDanglingCover ==
    \A k \in kbs : k.cover_image \notin removed

\* C3: no step removes a Document row whose status is processing.
ProcessingNeverDeleted ==
    [][\A d \in docs : d.status = "processing" => \E e \in docs' : e.id = d.id]_vars

\* C4: DocumentService.delete calls storage delete only after the commit that
\* removed the row; a failed commit answers an error and deletes no file; after
\* the commit the answer is (True, None) whatever the storage delete did; and
\* so no Document row ever names a file that has been deleted.
DocDeleteOrdering ==
    /\ \A r \in Requests :
          req[r].op = "delete_document" =>
             /\ req[r].blob # "none" => req[r].committed
             /\ req[r].committed => \A d \in docs : d.id # req[r].doc
             /\ req[r].pc = "done" /\ ~req[r].committed =>
                   ~req[r].ok /\ req[r].error # None /\ req[r].blob = "none"
             /\ req[r].pc = "done" /\ req[r].committed =>
                   req[r].ok /\ req[r].error = None /\ req[r].blob # "none"
    /\ \A d \in docs : d.file_path \notin removed

\* a delete answered (True, None) although the storage delete failed
DocDeleteOrderingWitness ==
    \E r \in Requests :
        /\ req[r].op = "delete_document"
        /\ req[r].pc = "done"
        /\ req[r].committed
        /\ req[r].blob \in {"fail", "raise"}
        /\ req[r].ok
        /\ ProvExists(Kind, req[r].key, "ok")

(***************************************************************************)
(* Tokens and login_required (app/util/jwt_utils.py, app/util/auth.py)     *)
(***************************************************************************)
\* Time is counted in ticks; jwt.encode stores exp and iat as whole seconds
\* (timegm of the datetime), jwt.decode compares them with the current time.
TicksPerSecond == 2
SecondsPerHour == 2
MaxClock == 12
DEFAULT_TOKEN_EXPIRE_HOURS == 24

HourTicks == SecondsPerHour * TicksPerSecond
Secrets == {"s1", "s2"}
Accounts == {[user_id |-> "u1", username |-> "alice"],
             [user_id |-> "u2", username |-> "bob"]}

\* generate_token at time now under the configured secret
generate_token(user_id, username, expires_hours, now, secret_key) ==
    [form |-> "jwt", user_id |-> user_id, username |-> username,
     exp |-> ((now + expires_hours * HourTicks) \div TicksPerSecond),
     iat |-> (now \div TicksPerSecond),
     key |-> secret_key]

\* A verification that does not look at exp.
verify_token_NoExpiry(token, now, secret_key) ==
    IF token.form = "jwt" /\ token.key = secret_key
    THEN [user_id |-> token.user_id, username |-> token.username,
          exp |-> token.exp, iat |-> token.iat]
    ELSE NoPayload

\* verify_token at time now: jwt.decode raises (and None is returned) for a
\* string that is not a JWT, a signature made with another key, an exp that is
\* not in the future, an iat that is.
verify_token(token, now, secret_key) ==
    IF /\ token.form = "jwt"
       /\ token.key = secret_key
       /\ token.exp * TicksPerSecond > now
       /\ token.iat * TicksPerSecond <= now
    THEN [user_id |-> token.user_id, username |-> token.username,
          exp |-> token.exp, iat |-> token.iat]
    ELSE NoPayload

\* the Authorization header: absent, or `parts` words separated by one blank,
\* the first being `scheme` and, when there are two, the second being `token`
NoHeader == [parts |-> 0, scheme |-> "", token |-> NoToken]

\* get_token_from_header
get_token_from_header(auth_header) ==
    IF auth_header.parts = 0 THEN NoToken
    ELSE IF auth_header.parts # 2 \/ Lower(auth_header.scheme) # "bearer" THEN NoToken
    ELSE auth_header.token

\* A decorator that also looks the account up and refuses a token whose
\* account is missing or disabled.
login_required_ChecksAccount(auth_header, now, secret_key) ==
    LET token == get_token_from_header(auth_header)
        payload == verify_token(token, now, secret_key)
    IN  IF token.form = "none"
        THEN [NoResp EXCEPT !.op = "request", !.code = 401, !.message = "missing"]
        ELSE IF payload = NoPayload
        THEN [NoResp EXCEPT !.op = "request", !.code = 401, !.message = "expired"]
        ELSE IF ~\E u \in users : ToString(u.id) = payload.user_id /\ u.is_active
        THEN [NoResp EXCEPT !.op = "request", !.code = 401, !.message = "disabled"]
        ELSE [NoResp EXCEPT !.op = "request", !.code = 200, !.payload = payload]

\* login_required: what the decorator answers, code 200 standing for the call
\* of the protected view with g.current_user = payload
login_required(auth_header, now, secret_key) ==
    LET token == get_token_from_header(auth_header)
        payload == verify_token(token, now, secret_key)
    IN  IF token.form = "none"
        THEN [NoResp EXCEPT !.op = "request", !.code = 401, !.message = "missing"]
        ELSE IF payload = NoPayload
        THEN [NoResp EXCEPT !.op = "request", !.code = 401, !.message = "expired"]
        ELSE [NoResp EXCEPT !.op = "request", !.code = 200, !.payload = payload]

\* routes/auth.py login: a token for the account, with the given lifetime
Login(a, expires_hours) ==
    /\ held' = [tok |-> generate_token(a.user_id, a.username, expires_hours,
                                       clock, SECRET_KEY),
                origin |-> "issued", at |-> clock, hours |-> expires_hours, who |-> a]
    /\ UNCHANGED <<factoryVars, storeVars, probeVars, dbVars, svcVars, users,
                   clock, SECRET_KEY, settings, resp>>

\* a token made by hand: any claims, any signing key, or not a JWT at all
Forge(token) ==
    /\ held' = [NoHeld EXCEPT !.tok = token, !.origin = "forged", !.at = clock]
    /\ UNCHANGED <<factoryVars, storeVars, probeVars, dbVars, svcVars, users,
                   clock, SECRET_KEY, settings, resp>>

Tick ==
    /\ clock < MaxClock
    /\ clock' = clock + 1
    /\ UNCHANGED <<factoryVars, storeVars, probeVars, dbVars, svcVars, users,
                   SECRET_KEY, held, settings, resp>>

\* the application is restarted with another SECRET_KEY
RotateSecret(secret_key) ==
    /\ secret_key # SECRET_KEY
    /\ SECRET_KEY' = secret_key
    /\ UNCHANGED <<factoryVars, storeVars, probeVars, dbVars, svcVars, users,
                   clock, held, settings, resp>>

\* verify_token(held token)
Verify ==
    /\ held.origin # "none"
    /\ resp' = [NoResp EXCEPT !.op = "verify",
                               !.payload = verify_token(held.tok, clock, SECRET_KEY)]
    /\ UNCHANGED <<factoryVars, storeVars, probeVars, dbVars, svcVars, users,
                   clock, SECRET_KEY, held, settings>>

\* a request to a protected endpoint with the given Authorization header
Protected(auth_header) ==
    /\ resp' = login_required(auth_header, clock, SECRET_KEY)
    /\ UNCHANGED <<factoryVars, storeVars, probeVars, dbVars, svcVars, users,
                   clock, SECRET_KEY, held, settings>>

\* tokens made by hand: expired a second ago or valid for an hour, signed
\* with either key; and a string that is not a JWT
ForgedTokens ==
    {[form |-> "jwt", user_id |-> "u1", username |-> "alice",
      exp |-> e, iat |-> 0, key |-> k] :
        e \in {(clock \div TicksPerSecond) - 1, (clock \div TicksPerSecond) + SecondsPerHour},
        k \in Secrets}
    \cup {[NoToken EXCEPT !.form = "garbage"]}

\* the headers a client can send with the token it holds
HeaderInputs ==
    {NoHeader}
    \cup {[parts |-> 2, scheme |-> sc, token |-> held.tok] :
             sc \in {"Bearer", "bearer", "Basic"}}
    \cup {[parts |-> 1, scheme |-> "Bearer", token |-> NoToken],
          [parts |-> 3, scheme |-> "Bearer", token |-> NoToken]}

InitAuth ==
    /\ InitFactory
    /\ STORAGE_TYPE = "local"
    /\ bucketExists = FALSE

NextAuth ==
    \/ \E a \in Accounts, h \in {0, 1, DEFAULT_TOKEN_EXPIRE_HOURS} : Login(a, h)
    \/ \E t \in ForgedTokens : Forge(t)
    \/ Tick
    \/ \E k \in Secrets : RotateSecret(k)
    \/ Verify
    \/ \E h \in HeaderInputs : Protected(h)

SpecAuth == InitAuth /\ [][NextAuth]_vars

(***************************************************************************)
(* Tokens and login_required: properties                                   *)
(***************************************************************************)
\* the payload verify_token returns for the held token now
Verified == verify_token(held.tok, clock, SECRET_KEY)

SameIdentity(payload) ==
    payload.user_id = held.who.user_id /\ payload.username = held.who.username

\* C11 as stated: a token issued with lifetime L verifies, with the user_id and
\* username it was issued for, at every time before issue time + L under the
\* same secret; verify_token returns None at every time after its exp and for
\* a token signed with another secret.
TokenLifecycle ==
    held.origin = "issued" =>
        /\ (held.tok.key = SECRET_KEY /\ clock < held.at + held.hours * HourTicks)
              => (Verified # NoPayload /\ SameIdentity(Verified))
        /\ clock > held.tok.exp * TicksPerSecond => Verified = NoPayload
        /\ held.tok.key # SECRET_KEY => Verified = NoPayload

\* C11 as amended: the exp of an issued token is issue time + L cut down to a
\* whole second; under the same secret the token verifies, with the user_id
\* and username it was issued for, at every time before that exp (so possibly
\* not during the last second before issue time + L); verify_token returns
\* None at every time from exp on and for a token signed with another secret.
TokenLifecycleWholeSeconds ==
    held.origin = "issued" =>
        LET due == held.at + held.hours * HourTicks
            exp == held.tok.exp * TicksPerSecond
        IN  /\ exp <= due /\ due < exp + TicksPerSecond
            /\ (held.tok.key = SECRET_KEY /\ clock < exp)
                  => (Verified # NoPayload /\ SameIdentity(Verified))
            /\ clock >= exp => Verified = NoPayload
            /\ held.tok.key # SECRET_KEY => Verified = NoPayload

\* an issued token was verified some time after it was issued, and at another
\* time, before issue time + L, it no longer verifies
TokenLifecycleWitness ==
    /\ held.origin = "issued"
    /\ held.hours = 1
    /\ resp.op = "verify"
    /\ resp.payload # NoPayload
    /\ held.tok.key = SECRET_KEY
    /\ clock = held.tok.exp * TicksPerSecond
    /\ clock < held.at + held.hours * HourTicks

\* C12: every request that fails authentication (no header, a malformed
\* header, a bad signature, an expired token) gets the same status code and
\* the same message.
AuthFailuresIndistinguishable ==
    (resp.op = "request" /\ resp.code # 200) =>
        \A h \in HeaderInputs :
            LET other == login_required(h, clock, SECRET_KEY)
            IN  other.code # 200 =>
                    (other.code = resp.code /\ other.message = resp.message)

(***************************************************************************)
(* Queries of the Knowledgebase and Document services                      *)
(***************************************************************************)
\* what a query returns: the rows (as dictionaries) and the error
Found(rows) == [rows |-> rows, error |-> None, result |-> TRUE]
Failed(error) == [rows |-> {}, error |-> error, result |-> FALSE]

\* A get_by_id that filters by the user_id it is given, whatever it is.
KbGetById_AlwaysFilters(kb_id, user_id) ==
    LET found == {k \in kbs : k.id = kb_id /\ k.user_id = user_id}
    IN  IF found = {} THEN Failed("kb_not_found") ELSE Found(found)

\* KnowledgebaseService.get_by_id: the user filter is applied only `if
\* user_id:`, that is when the user_id passed is neither None nor ''
KbGetById(kb_id, user_id) ==
    LET found == {k \in kbs : k.id = kb_id
                               /\ (user_id \in {None, ""} \/ k.user_id = user_id)}
    IN  IF found = {} THEN Failed("kb_not_found") ELSE Found(found)

\* KnowledgebaseService.get_list: the knowledge bases of the user
KbGetList(user_id) == Found({k \in kbs : k.user_id = user_id})

\* DocumentService.get_list
DocGetList(kb_id, user_id) ==
    IF KbOwned(kb_id, user_id) = {} THEN Failed("kb_not_found")
    ELSE Found({d \in docs : d.kb_id = kb_id})

\* DocumentService.get_by_id
DocGetById(kb_id, doc_id, user_id) ==
    IF KbOwned(kb_id, user_id) = {} THEN Failed("kb_not_found")
    ELSE IF DocIn(doc_id, kb_id) = {} THEN Failed("doc_not_found")
    ELSE Found(DocIn(doc_id, kb_id))

\* a query is answered: nothing changes but the record of the last answer
\* (of which the error and the ids of the rows are kept)
Query(op, result) ==
    /\ resp' = [NoResp EXCEPT !.op = op, !.rows = {x.id : x \in result.rows},
                               !.error = result.error,
                               !.returned = Returned(result.result, result.error)]
    /\ UNCHANGED <<factoryVars, storeVars, probeVars, dbVars, svcVars, users,
                   clock, SECRET_KEY, held, settings>>

(***************************************************************************)
(* Ownership: two users working on each other's knowledge bases, one       *)
(* request at a time, database and storage healthy                         *)
(***************************************************************************)
RenameInputs == {[NoUpdate EXCEPT !.fields = {"name"}, !.name = n] : n \in Names}

InitOwn == InitProvider("local") /\ InitIdleServices

NextOwn ==
    \/ \E u \in Users, n \in Names : KbCreate(u, n, 200, 50, NoKey)
    \/ \E r \in {1}, u \in Users, kb \in Ids : UploadDocStore(r, u, kb, "ok")
    \/ \E r \in {1} : DocCreate(r, "ok")
    \/ \E r \in {1} : UploadRollback(r, "ok")
    \/ \E r \in {1}, u \in Users, kb \in Ids, d \in Ids : DocDeleteTxn(r, u, kb, d)
    \/ \E r \in {1} : DocDeleteCommit(r, "ok")
    \/ \E r \in {1} : DocDeleteBlob(r, "ok")
    \/ \E u \in Users, kb \in Ids, d \in Ids : UpdateStatus(u, kb, d, "processing")
    \/ \E r \in {1}, u \in Users, kb \in Ids, upd \in RenameInputs :
          KbUpdateTxn(r, u, kb, upd)
    \/ \E r \in {1} : KbUpdateCommit(r, "ok")
    \/ \E r \in {1}, u \in Users, kb \in Ids : KbDeleteTxn(r, u, kb)
    \/ \E r \in {1} : KbDeleteCommit(r, "ok")
    \/ \E r \in {1} : Finish(r)
    \/ \E u \in Users, kb \in Ids : Query("kb_get_by_id", KbGetById(kb, u))
    \/ \E u \in Users : Query("kb_get_list", KbGetList(u))
    \/ \E u \in Users, kb \in Ids : Query("doc_get_list", DocGetList(kb, u))
    \/ \E u \in Users, kb \in Ids, d \in Ids : Query("doc_get_by_id", DocGetById(kb, d, u))

SpecOwn == InitOwn /\ [][NextOwn]_vars

(***************************************************************************)
(* Ownership: properties                                                   *)
(***************************************************************************)
\* an id no row has
NoId == 0

\* the answer of a mutating operation whose ownership query found nothing
NotFound(op, doc_id) ==
    Answer([IdleReq EXCEPT !.op = op, !.doc = doc_id], FALSE, "kb_not_found")

\* the queries of user_id on a knowledge base of somebody else answer what
\* they answer for an id that does not exist, and return no row
QueriesIsolated ==
    \A u \in Users :
        /\ \A k \in KbGetList(u).rows : k.user_id = u
        /\ \A kb \in Ids :
              Foreign(kb, u) =>
                 /\ KbGetById(kb, u) = KbGetById(NoId, u)
                 /\ KbGetById(kb, u).rows = {}
                 /\ DocGetList(kb, u) = DocGetList(NoId, u)
                 /\ DocGetList(kb, u).rows = {}
                 /\ \A d \in Ids : /\ DocGetById(kb, d, u) = DocGetById(NoId, d, u)
                                   /\ DocGetById(kb, d, u).rows = {}

\* a mutating operation of user_id on a knowledge base of somebody else ends
\* at once with the answer given for an id that does not exist, and changes
\* no row and no blob
MutationsIsolated ==
    \A r \in Requests, u \in Users, kb \in Ids :
        Foreign(kb, u) =>
           /\ \A d \in Ids :
                 DocDeleteTxn(r, u, kb, d) =>
                    (req'[r] = NotFound("delete_document", d)
                       /\ UNCHANGED <<dbVars, storeVars>>)
           /\ \A upd \in RenameInputs :
                 KbUpdateTxn(r, u, kb, upd) =>
                    (req'[r] = NotFound("update_kb", 0) /\ UNCHANGED <<dbVars, storeVars>>)
           /\ KbDeleteTxn(r, u, kb) =>
                    (req'[r] = NotFound("delete_kb", 0) /\ UNCHANGED <<dbVars, storeVars>>)
           /\ \A d \in Ids, st \in DocumentStatus : ~UpdateStatus(u, kb, d, st)
           /\ (req[r].kb = kb /\ req[r].user = u) =>
                 \A dbio \in IoOutcomes :
                    DocCreate(r, dbio) =>
                       (req'[r].pc = "rollback" /\ req'[r].error = "kb_not_found"
                          /\ UNCHANGED <<dbVars, storeVars>>)

create_validation_NoPairCheck(name, chunk_size, chunk_overlap) ==
    IF name = "" THEN "name"
    ELSE IF chunk_size < 100 \/ chunk_size > 2000 THEN "chunk_size"
    ELSE IF chunk_overlap < 0 \/ chunk_overlap > 200 THEN "chunk_overlap"
    ELSE None

\* create_knowledgebase lines 53-73: the error of the first check that fails
create_validation(name, chunk_size, chunk_overlap) ==
    IF name = "" THEN "name"
    ELSE IF chunk_size < 100 \/ chunk_size > 2000 THEN "chunk_size"
    ELSE IF chunk_overlap < 0 \/ chunk_overlap > 200 THEN "chunk_overlap"
    ELSE IF chunk_overlap >= chunk_size THEN "chunk"
    ELSE None

\* update_knowledgebase lines 196-228: the checks on the fields that are sent
update_validation(upd) ==
    IF "name" \in upd.fields /\ upd.name = "" THEN "name"
    ELSE IF "chunk_size" \in upd.fields /\ (upd.chunk_size < 100 \/ upd.chunk_size > 2000)
    THEN "chunk_size"
    ELSE IF "chunk_overlap" \in upd.fields
            /\ (upd.chunk_overlap < 0 \/ upd.chunk_overlap > 200)
    THEN "chunk_overlap"
    ELSE IF {"chunk_size", "chunk_overlap"} \subseteq upd.fields
            /\ upd.chunk_overlap >= upd.chunk_size
    THEN "chunk"
    ELSE IF upd.fields = {} THEN "no_fields"
    ELSE None

\* create_knowledgebase: validation, then kb_service.create (insert, flush,
\* commit; IntegrityError on the unique name; any other exception).
CreateKnowledgebase(user_id, name, chunk_size, chunk_overlap, cover_image, dbio) ==
    LET invalid == create_validation(name, chunk_size, chunk_overlap)
        taken == \E k \in kbs : k.name = name
        call == [NoResp EXCEPT !.op = "create_kb"]
        served == [call EXCEPT !.called = {"kb_service.create"}]
    IN  /\ IF invalid # None
           THEN /\ resp' = [call EXCEPT !.code = 400, !.error = invalid]
                /\ UNCHANGED <<kbs, nextId>>
           ELSE IF dbio = "fail"
           THEN /\ resp' = [served EXCEPT !.code = 400, !.error = "internal",
                                           !.returned = Returned(FALSE, "internal")]
                /\ UNCHANGED <<kbs, nextId>>
           ELSE IF taken
           THEN /\ resp' = [served EXCEPT !.code = 400, !.error = "name_exists",
                                           !.returned = Returned(FALSE, "name_exists")]
                /\ UNCHANGED <<kbs, nextId>>
           ELSE /\ nextId <= MaxIds
                /\ resp' = [served EXCEPT !.code = 200, !.rows = {nextId},
                                           !.returned = Returned(TRUE, None)]
                /\ kbs' = kbs \cup {[id |-> nextId, user_id |-> user_id, name |-> name,
                                     cover_image |-> cover_image,
                                     chunk_size |-> chunk_size,
                                     chunk_overlap |-> chunk_overlap]}
                /\ nextId' = nextId + 1
        /\ UNCHANGED <<factoryVars, storeVars, probeVars, docs, svcVars, users,
                       clock, SECRET_KEY, held, settings>>

(***************************************************************************)
(* Knowledge bases: creation through the route                             *)
(***************************************************************************)
ChunkSizeInputs == {99, 100, 2000, 2001}
ChunkOverlapInputs == {-1, 50, 150, 201}

InitCreate == InitProvider("local") /\ InitIdleServices

NextCreate ==
    \E u \in Users, n \in Names \cup {""}, cs \in ChunkSizeInputs,
       co \in ChunkOverlapInputs, dbio \in IoOutcomes :
       CreateKnowledgebase(u, n, cs, co, NoKey, dbio)

SpecCreate == InitCreate /\ [][NextCreate]_vars

(***************************************************************************)
(* Knowledge bases: concurrent updates of the chunking of one user's       *)
(* knowledge bases                                                         *)
(***************************************************************************)
\* update_data with chunk fields that passes the checks of the route
ChunkUpdateInputs ==
    {upd \in {[NoUpdate EXCEPT !.fields = {"chunk_size"}, !.chunk_size = cs] :
                 cs \in ChunkSizeInputs}
             \cup {[NoUpdate EXCEPT !.fields = {"chunk_overlap"}, !.chunk_overlap = co] :
                      co \in ChunkOverlapInputs}
             \cup {[NoUpdate EXCEPT !.fields = {"chunk_size", "chunk_overlap"},
                                    !.chunk_size = cs, !.chunk_overlap = co] :
                      cs \in ChunkSizeInputs, co \in ChunkOverlapInputs} :
        update_validation(upd) = None}

InitChunks == InitProvider("local") /\ InitIdleServices

NextChunks ==
    \/ \E n \in Names, cs \in ChunkSizeInputs, co \in ChunkOverlapInputs :
          /\ create_validation(n, cs, co) = None
          /\ CreateKnowledgebase("alice", n, cs, co, NoKey, "ok")
    \/ \E r \in Requests, kb \in Ids, upd \in ChunkUpdateInputs :
          KbUpdateTxn(r, "alice", kb, upd)
    \/ \E r \in Requests, dbio \in IoOutcomes : KbUpdateCommit(r, dbio)
    \/ \E r \in Requests : Finish(r)

SpecChunks == InitChunks /\ [][NextChunks]_vars

(***************************************************************************)
(* Knowledge bases: creations and renames competing for a name             *)
(***************************************************************************)
InitNames == InitProvider("local") /\ InitIdleServices

NextNames ==
    \/ \E u \in Users, n \in Names, dbio \in IoOutcomes :
          CreateKnowledgebase(u, n, 2000, 50, NoKey, dbio)
    \/ \E r \in Requests, u \in Users, kb \in Ids, upd \in RenameInputs :
          KbUpdateTxn(r, u, kb, upd)
    \/ \E r \in Requests, dbio \in IoOutcomes : KbUpdateCommit(r, dbio)
    \/ \E r \in Requests : Finish(r)

SpecNames == InitNames /\ [][NextNames]_vars

(***************************************************************************)
(* Knowledge bases: properties                                             *)
(***************************************************************************)
\* C14: every persisted Knowledgebase satisfies chunk_overlap < chunk_size.
ChunkInvariant == \A k \in kbs : k.chunk_overlap < k.chunk_size

\* the values the route accepts one by one
InRange(chunk_size, chunk_overlap) ==
    /\ 100 <= chunk_size /\ chunk_size <= 2000
    /\ 0 <= chunk_overlap /\ chunk_overlap <= 200

\* the creation was refused before kb_service.create was called
RejectedUnpersisted == resp'.code = 400 /\ resp'.called = {} /\ UNCHANGED dbVars

\* the creation inserted one row with the values given
Created(name, chunk_size, chunk_overlap) ==
    /\ resp'.code = 200
    /\ \E k \in kbs' \ kbs :
          /\ kbs' = kbs \cup {k}
          /\ k.name = name
          /\ k.chunk_size = chunk_size
          /\ k.chunk_overlap = chunk_overlap

NamesUnique == \A k1 \in kbs, k2 \in kbs : k1.name = k2.name => k1.id = k2.id

\* a creation or a rename that asks for a name: it gets it when the name is
\* free, and is answered 'name already exists', with no row changed, when not
CompetingForName ==
    /\ \A u \in Users, n \in Names :
          CreateKnowledgebase(u, n, 2000, 50, NoKey, "ok") =>
             IF \E k \in kbs : k.name = n
             THEN resp'.error = "name_exists" /\ UNCHANGED dbVars
             ELSE Created(n, 2000, 50)
    /\ \A r \in Requests :
          (/\ KbUpdateCommit(r, "ok")
           /\ "name" \in req[r].dirty
           /\ \E k \in kbs : k.id = req[r].kb) =>
             IF \E k \in kbs : k.id # req[r].kb /\ k.name = req[r].upd.name
             THEN /\ req'[r].pc = "done" /\ ~req'[r].ok
                  /\ req'[r].error = "name_exists"
                  /\ UNCHANGED dbVars
             ELSE /\ req'[r].ok
                  /\ \E k \in kbs' : k.id = req[r].kb /\ k.name = req[r].upd.name

\* C16: no two persisted Knowledgebases ever have the same name; of creations
\* and renames that ask for the same name one succeeds and every other one is
\* answered 'name already exists' and leaves no second record.
NameUniqueness == []NamesUnique /\ [][CompetingForName]_vars

\* two renames ran side by side, one won and one was answered 'name already
\* exists', as was the last creation
NameUniquenessWitness ==
    /\ \E r1 \in Requests, r2 \in Requests :
          /\ req[r1].op = "update_kb" /\ req[r1].pc = "done" /\ req[r1].ok
          /\ req[r2].op = "update_kb" /\ req[r2].pc = "done"
          /\ req[r2].error = "name_exists"
    /\ resp.op = "create_kb"
    /\ resp.error = "name_exists"


(***************************************************************************)
(* Settings (app/services/settings_service.py, app/routes/settings.py)     *)
(***************************************************************************)
Number(t) == [NoValue EXCEPT !.kind = "number", !.tenths = t]
Text(s) == [NoValue EXCEPT !.kind = "text", !.text = s]

\* int(v): a number truncated toward zero; ValueError for a string that is
\* not a number, TypeError for None
int(v) == IF v.kind # "number" THEN [ok |-> FALSE, val |-> 0]
          ELSE [ok |-> TRUE,
                val |-> IF v.tenths >= 0 THEN v.tenths \div 10
                                         ELSE -((-v.tenths) \div 10)]

\* float(v), in tenths
float(v) == IF v.kind # "number" THEN [ok |-> FALSE, val |-> 0]
            ELSE [ok |-> TRUE, val |-> v.tenths]

\* what an INT column keeps of the value bound to it: MySQL rounds a number
\* with a fraction to the nearest integer
IntegerColumn(v) == IF v.tenths >= 0 THEN (v.tenths + 5) \div 10
                                     ELSE -((5 - v.tenths) \div 10)

_get_default_settings ==
    [id |-> "global", top_k |-> 5, llm_temperature |-> 7, retrieval_mode |-> "vector"]

RetrievalModes == {"vector", "keyword", "hybrid"}

\* update, lines 105-161: the first error of the body, or None
validate(data) ==
    IF data.fields = {} THEN "no_fields"
    ELSE IF /\ "retrieval_mode" \in data.fields
            /\ ~(data.retrieval_mode.kind = "text"
                 /\ data.retrieval_mode.text \in RetrievalModes)
    THEN "mode"
    ELSE IF "top_k" \in data.fields /\ ~int(data.top_k).ok
    THEN "top_k_format"
    ELSE IF /\ "top_k" \in data.fields
            /\ ~(1 <= int(data.top_k).val /\ int(data.top_k).val <= 50)
    THEN "top_k_range"
    ELSE IF "llm_temperature" \in data.fields /\ ~float(data.llm_temperature).ok
    THEN "temperature_format"
    ELSE IF /\ "llm_temperature" \in data.fields
            /\ ~(0 <= float(data.llm_temperature).val
                 /\ float(data.llm_temperature).val <= 20)
    THEN "temperature_range"
    ELSE None

\* the value a column gets from update_data: top_k as it was sent (the int()
\* of line 142 is used for the check only), llm_temperature as str(float(v))
\* (line 154, held as its tenths), retrieval_mode as sent
ColumnValue(data, f) ==
    CASE f = "top_k" -> IntegerColumn(data.top_k)
      [] f = "llm_temperature" -> float(data.llm_temperature).val
      [] f = "retrieval_mode" -> data.retrieval_mode.text

Overlaid(row, data) ==
    [f \in DOMAIN row |-> IF f \in data.fields THEN ColumnValue(data, f) ELSE row[f]]

SettingsColumns == {"top_k", "llm_temperature", "retrieval_mode"}

Idle(r) == settings.sessions[r].pc = "idle" /\ \A q \in Requests
             : q < r => settings.sessions[q].pc # "idle"

\* get (lines 52-71): the record, or the defaults while there is none
SettingsGet(dbio) ==
    /\ resp' = IF dbio = "fail"
               THEN [NoResp EXCEPT !.op = "settings_get", !.code = 500,
                                   !.error = "get_failed",
                                   !.returned = Returned(FALSE, "get_failed")]
               ELSE [NoResp EXCEPT !.op = "settings_get", !.code = 200,
                       !.returned = Returned(TRUE, None),
                       !.rows = IF settings.table = {} THEN {_get_default_settings}
                                ELSE settings.table]
    /\ UNCHANGED <<factoryVars, storeVars, probeVars, dbVars, svcVars, users,
                   clock, SECRET_KEY, held, settings>>

\* update up to the flush (lines 105-181): the checks, the SELECT, the new
\* object with the defaults when there is no record, setattr of every field
SettingsUpdateTxn(r, data) ==
    /\ Idle(r)
    /\ LET error == validate(data)
           found == settings.table # {}
           loaded == IF found THEN CHOOSE s \in settings.table : TRUE
                     ELSE _get_default_settings
       IN
       IF error # None
       THEN /\ resp' = [NoResp EXCEPT !.op = "settings_update", !.code = 400,
                                      !.error = error,
                                      !.returned = Returned(FALSE, error)]
            /\ UNCHANGED settings
       ELSE /\ settings' = [settings EXCEPT !.sessions[r] =
                 [pc |-> "commit", found |-> found, obj |-> Overlaid(loaded, data),
                  dirty |-> IF found
                            THEN {f \in data.fields : ColumnValue(data, f) # loaded[f]}
                            ELSE SettingsColumns,
                  data |-> data]]
            /\ UNCHANGED resp
    /\ UNCHANGED <<factoryVars, storeVars, probeVars, dbVars, svcVars, users,
                   clock, SECRET_KEY, held>>

\* A flush that replaces the record it did not expect (INSERT ... ON
\* DUPLICATE KEY UPDATE in place of INSERT).
SettingsUpdateCommit_Upsert(r, dbio) ==
    /\ settings.sessions[r].pc = "commit"
    /\ LET ses == settings.sessions[r]
           failed == dbio = "fail"
       IN
       /\ settings' = [table |-> IF failed THEN settings.table
                                 ELSE IF ~ses.found THEN {ses.obj}
                                 ELSE {[f \in DOMAIN s |-> IF f \in ses.dirty
                                                           THEN ses.obj[f] ELSE s[f]]
                                       : s \in settings.table},
                       sessions |-> [settings.sessions EXCEPT ![r] = NoSession]]
       /\ resp' = IF failed
                  THEN [NoResp EXCEPT !.op = "settings_update", !.code = 400,
                          !.error = "update_failed",
                          !.returned = Returned(FALSE, "update_failed"),
                          !.message = IF dbio = "fail" THEN "OperationalError"
                                      ELSE "IntegrityError"]
                  ELSE [NoResp EXCEPT !.op = "settings_update", !.code = 200,
                                      !.returned = Returned(TRUE, None),
                                      !.rows = {ses.obj}]
    /\ UNCHANGED <<factoryVars, storeVars, probeVars, dbVars, svcVars, users,
                   clock, SECRET_KEY, held>>

\* update, the flush and the commit (lines 183-191): the INSERT of the new
\* object, which the primary key refuses when the record exists by now, or
\* the UPDATE of the changed columns; every exception answers "更新设置失败"
\* and is logged (resp.message)
SettingsUpdateCommit(r, dbio) ==
    /\ settings.sessions[r].pc = "commit"
    /\ LET ses == settings.sessions[r]
           failed == dbio = "fail" \/ (~ses.found /\ settings.table # {})
       IN
       /\ settings' = [table |-> IF failed THEN settings.table
                                 ELSE IF ~ses.found THEN {ses.obj}
                                 ELSE {[f \in DOMAIN s |-> IF f \in ses.dirty
                                                           THEN ses.obj[f] ELSE s[f]]
                                       : s \in settings.table},
                       sessions |-> [settings.sessions EXCEPT ![r] = NoSession]]
       /\ resp' = IF failed
                  THEN [NoResp EXCEPT !.op = "settings_update", !.code = 400,
                          !.error = "update_failed",
                          !.returned = Returned(FALSE, "update_failed"),
                          !.message = IF dbio = "fail" THEN "OperationalError"
                                      ELSE "IntegrityError"]
                  ELSE [NoResp EXCEPT !.op = "settings_update", !.code = 200,
                                      !.returned = Returned(TRUE, None),
                                      !.rows = {ses.obj}]
    /\ UNCHANGED <<factoryVars, storeVars, probeVars, dbVars, svcVars, users,
                   clock, SECRET_KEY, held>>

TopKInputs == {Number(0), Number(10), Number(500), Number(509), Number(510),
               Text("many")}
TemperatureInputs == {Number(-1), Number(0), Number(20), Number(21), NoValue}
ModeInputs == {Text("hybrid"), Text("fuzzy")}

\* bodies with one key each, one with two keys, and one with no allowed key
SettingsInputs ==
    {[NoData EXCEPT !.fields = {"top_k"}, !.top_k = v] : v \in TopKInputs}
    \cup {[NoData EXCEPT !.fields = {"llm_temperature"}, !.llm_temperature = v]
          : v \in TemperatureInputs}
    \cup {[NoData EXCEPT !.fields = {"retrieval_mode"}, !.retrieval_mode = v]
          : v \in ModeInputs}
    \cup {[NoData EXCEPT !.fields = {"top_k", "retrieval_mode"},
                         !.top_k = Number(10), !.retrieval_mode = Text("hybrid")],
          NoData}

InitSettings == InitProvider("local") /\ InitIdleServices

NextSettings ==
    \/ \E dbio \in IoOutcomes : SettingsGet(dbio)
    \/ \E r \in Requests, data \in SettingsInputs : SettingsUpdateTxn(r, data)
    \/ \E r \in Requests, dbio \in IoOutcomes : SettingsUpdateCommit(r, dbio)

SpecSettings == InitSettings /\ [][NextSettings]_vars


(***************************************************************************)
(* Settings: properties                                                    *)
(***************************************************************************)
TopKStored == \A s \in settings.table : s.top_k \in 1..50

\* a body whose top_k is not in [1, 50] or whose llm_temperature is not in
\* [0, 2]
OutsideBounds(data) ==
    \/ /\ "top_k" \in data.fields
       /\ data.top_k.kind = "number"
       /\ ~(10 <= data.top_k.tenths /\ data.top_k.tenths <= 500)
    \/ /\ "llm_temperature" \in data.fields
       /\ data.llm_temperature.kind = "number"
       /\ ~(0 <= data.llm_temperature.tenths /\ data.llm_temperature.tenths <= 20)

InsideBounds(data) ==
    /\ data.fields \in {{"top_k"}, {"llm_temperature"}}
    /\ "top_k" \in data.fields => data.top_k \in {Number(10), Number(500)}
    /\ "llm_temperature" \in data.fields
          => data.llm_temperature \in {Number(0), Number(20)}

SettingsRejected ==
    /\ resp'.op = "settings_update"
    /\ resp'.error # None
    /\ UNCHANGED settings

RejectsOutside ==
    \A r \in Requests, data \in SettingsInputs :
       SettingsUpdateTxn(r, data) =>
          /\ OutsideBounds(data) => SettingsRejected
          /\ InsideBounds(data) => settings'.sessions[r].pc = "commit"

\* C17: update rejects a top_k outside [1, 50] (0 and 51 are rejected, 1 and
\* 50 accepted) and an llm_temperature outside [0, 2], a rejected update
\* leaves the table as it was, and the stored top_k is always in [1, 50].
SettingsBounds == []TopKStored /\ [][RejectsOutside]_vars

Singleton ==
    /\ Cardinality(settings.table) <= 1
    /\ \A s \in settings.table : s.id = "global"

GetNeverCreates ==
    \A dbio \in IoOutcomes :
       SettingsGet(dbio) =>
          /\ UNCHANGED settings
          /\ (dbio = "ok" /\ settings.table = {})
                => resp'.rows = {_get_default_settings} /\ resp'.error = None

\* what a commit may do: fail with an error and leave the table alone; or
\* create the record, on an empty table only, as the defaults overlaid by the
\* supplied fields; or write the changed supplied columns of the one record
\* and no other column
CommitLifecycle ==
    \A r \in Requests, dbio \in IoOutcomes :
       SettingsUpdateCommit(r, dbio) =>
          LET ses == settings.sessions[r] IN
          IF resp'.error # None
          THEN settings'.table = settings.table
          ELSE IF ~ses.found
          THEN /\ settings.table = {}
               /\ settings'.table = {Overlaid(_get_default_settings, ses.data)}
          ELSE /\ settings.table # {}
               /\ \E old \in settings.table, new \in settings'.table :
                     \A f \in DOMAIN old :
                        new[f] = IF f \in ses.dirty THEN ColumnValue(ses.data, f)
                                 ELSE old[f]

\* C18: at most one Settings record, with id "global", ever exists; get never
\* creates it and returns the defaults while it is absent; the first
\* successful update creates it as the defaults overlaid by the supplied
\* fields and every later update changes that record in place; of two first
\* updates that run concurrently one creates the record and the other is
\* answered an error, so that the record is present and no field is lost
\* without an error.
SettingsLifecycle == []Singleton /\ [][GetNeverCreates /\ CommitLifecycle]_vars

\* two first updates ran concurrently: the second INSERT was refused, both
\* have returned and the record is there
SettingsLifecycleWitness ==
    /\ resp.op = "settings_update"
    /\ resp.message = "IntegrityError"
    /\ settings.table # {}
    /\ \A r \in Requests : settings.sessions[r].pc = "idle"


(***************************************************************************)
(* UserService (app/services/user_service.py)                              *)
(***************************************************************************)
MaxUsers == 2

Usernames == {"alice", "bob"}
Emails == {None, "a@example.org"}
Passwords == {"pw1", "pw2"}

\* bcrypt: a hash that verify_password matches against its password only
hash_password(password) == <<"bcrypt", password>>
verify_password(password, password_hash) == password_hash = hash_password(password)

\* the SELECT of the three queries: the rows, or nothing when it raises
\* (the exception is logged and None returned)
get_by_username(username, dbio) ==
    IF dbio = "fail" THEN {} ELSE {u \in users : u.username = username}
get_by_id(user_id, dbio) ==
    IF dbio = "fail" THEN {} ELSE {u \in users : u.id = user_id}
get_by_email(email, dbio) ==
    IF dbio = "fail" THEN {} ELSE {u \in users : u.email = email}

\* a call of UserService is answered: resp records what it returned
UserAnswer(op, rows, error, returned) ==
    resp' = [NoResp EXCEPT !.op = op, !.rows = {u.id : u \in rows},
                           !.error = error, !.returned = returned]

\* create_user: INSERT and commit; the unique indexes on username and email
\* raise IntegrityError
CreateUser(username, password, email, dbio) ==
    /\ LET row == [id |-> Cardinality(users) + 1, username |-> username,
                   email |-> email, password_hash |-> hash_password(password),
                   is_active |-> TRUE]
       IN
       IF dbio = "fail"
       THEN /\ UserAnswer("create_user", {}, "internal", Returned(FALSE, "internal"))
            /\ UNCHANGED users
       ELSE IF \E u \in users : u.username = username
       THEN /\ UserAnswer("create_user", {}, "username_exists",
                          Returned(FALSE, "username_exists"))
            /\ UNCHANGED users
       ELSE IF email # None /\ \E u \in users : u.email = email
       THEN /\ UserAnswer("create_user", {}, "email_exists",
                          Returned(FALSE, "email_exists"))
            /\ UNCHANGED users
       ELSE /\ Cardinality(users) < MaxUsers
            /\ UserAnswer("create_user", {row}, None, Returned(TRUE, None))
            /\ users' = users \cup {row}
    /\ UNCHANGED <<factoryVars, storeVars, probeVars, dbVars, svcVars,
                   clock, SECRET_KEY, held, settings>>

\* get_by_username, get_by_id, get_by_email: the user or None, no error
UserQuery(op, rows) ==
    /\ UserAnswer(op, rows, None, Bare(rows # {}))
    /\ UNCHANGED <<factoryVars, storeVars, probeVars, dbVars, svcVars, users,
                   clock, SECRET_KEY, held, settings>>

\* authenticate
Authenticate(username, password, dbio) ==
    /\ LET user == get_by_username(username, dbio) IN
       IF user = {}
       THEN UserAnswer("authenticate", {}, "bad_credentials",
                       Returned(FALSE, "bad_credentials"))
       ELSE IF \E u \in user : ~u.is_active
       THEN UserAnswer("authenticate", {}, "disabled", Returned(FALSE, "disabled"))
       ELSE IF \E u \in user : ~verify_password(password, u.password_hash)
       THEN UserAnswer("authenticate", {}, "bad_credentials",
                       Returned(FALSE, "bad_credentials"))
       ELSE UserAnswer("authenticate", user, None, Returned(TRUE, None))
    /\ UNCHANGED <<factoryVars, storeVars, probeVars, dbVars, svcVars, users,
                   clock, SECRET_KEY, held, settings>>

\* update_password: get_by_id, the check of the old password, then the
\* UPDATE in a session of its own
UpdatePassword(user_id, old_password, new_password, dbio, dbio2) ==
    /\ LET user == get_by_id(user_id, dbio) IN
       IF user = {}
       THEN /\ UserAnswer("update_password", {}, "user_not_found",
                          Returned(FALSE, "user_not_found"))
            /\ UNCHANGED users
       ELSE IF \E u \in user : ~verify_password(old_password, u.password_hash)
       THEN /\ UserAnswer("update_password", {}, "bad_old_password",
                          Returned(FALSE, "bad_old_password"))
            /\ UNCHANGED users
       ELSE IF dbio2 = "fail"
       THEN /\ UserAnswer("update_password", {}, "internal",
                          Returned(FALSE, "internal"))
            /\ UNCHANGED users
       ELSE /\ UserAnswer("update_password", user, None, Returned(TRUE, None))
            /\ users' = {IF u \in user
                         THEN [u EXCEPT !.password_hash = hash_password(new_password)]
                         ELSE u : u \in users}
    /\ UNCHANGED <<factoryVars, storeVars, probeVars, dbVars, svcVars,
                   clock, SECRET_KEY, held, settings>>

\* a query of the knowledge base or document service whose session raises
QueryFailed(op) == Query(op, Failed("internal"))

(***************************************************************************)
(* The services and what they return: one caller, a database that may fail *)
(***************************************************************************)
UserIds == 1..MaxUsers
KbQueries == {"kb_get_by_id", "kb_get_list", "doc_get_list", "doc_get_by_id"}

InitContract == InitProvider("local") /\ InitIdleServices

NextContract ==
    \/ \E n \in Usernames, e \in Emails, dbio \in IoOutcomes :
          CreateUser(n, "pw1", e, dbio)
    \/ \E n \in Usernames, dbio \in IoOutcomes :
          UserQuery("get_by_username", get_by_username(n, dbio))
    \/ \E id \in UserIds, dbio \in IoOutcomes :
          UserQuery("get_by_id", get_by_id(id, dbio))
    \/ \E e \in Emails \ {None}, dbio \in IoOutcomes :
          UserQuery("get_by_email", get_by_email(e, dbio))
    \/ \E n \in Usernames, pw \in Passwords, dbio \in IoOutcomes :
          Authenticate(n, pw, dbio)
    \/ \E id \in UserIds, old \in Passwords, dbio \in IoOutcomes,
          dbio2 \in IoOutcomes :
          UpdatePassword(id, old, "pw2", dbio, dbio2)
    \/ \E dbio \in IoOutcomes :
          CreateKnowledgebase("alice", "notes", 200, 50, NoKey, dbio)
    \/ \E u \in Users, kb \in {1} : Query("kb_get_by_id", KbGetById(kb, u))
    \/ \E u \in Users : Query("kb_get_list", KbGetList(u))
    \/ \E u \in Users, kb \in {1} : Query("doc_get_list", DocGetList(kb, u))
    \/ \E u \in Users, kb \in {1}, d \in {1} :
          Query("doc_get_by_id", DocGetById(kb, d, u))
    \/ \E op \in KbQueries : QueryFailed(op)
    \/ \E r \in {1}, u \in Users, kb \in {1},
          upd \in {[NoUpdate EXCEPT !.fields = {"name"}, !.name = "papers"], NoUpdate} :
          KbUpdateTxn(r, u, kb, upd)
    \/ \E r \in {1}, dbio \in IoOutcomes : KbUpdateCommit(r, dbio)
    \/ \E r \in {1}, u \in Users, kb \in {1} : KbDeleteTxn(r, u, kb)
    \/ \E r \in {1}, dbio \in IoOutcomes : KbDeleteCommit(r, dbio)
    \/ \E r \in {1} : Finish(r)
    \/ \E dbio \in IoOutcomes : SettingsGet(dbio)
    \/ \E r \in {1}, data \in {[NoData EXCEPT !.fields = {"top_k"}, !.top_k = v]
                               : v \in {Number(0), Number(10)}} :
          SettingsUpdateTxn(r, data)
    \/ \E r \in {1}, dbio \in IoOutcomes : SettingsUpdateCommit(r, dbio)

SpecContract == InitContract /\ [][NextContract]_vars

(***************************************************************************)
(* The result contract                                                     *)
(***************************************************************************)
\* C19: every operation and every query of the User, Knowledgebase, Document
\* and Settings services returns a pair (result, error), and never a pair
\* without a result and without an error.
ResultContract ==
    /\ resp.returned \in {"nothing", "(result, None)", "(None, error)"}
    /\ \A r \in Requests : req[r].pc = "done" => (req[r].ok \/ req[r].error # None)


(***************************************************************************)
(* routes/upload.py get_file: GET /files/<path:object_key>                 *)
(***************************************************************************)
\* A key of the URL is a list of tokens: the characters ".", "/", "\", ":",
\* NUL and the letter "C", percent escapes of three characters each, and runs
\* of two or more other characters ("documents", "1.pdf"), none of which
\* starts or ends with a dot.
Nul == "NUL"
Escapes == {"%2e", "%2f", "%5c", "%00"}
SingleChars == {".", "/", "\\", ":", Nul, "C"}

\* urllib.parse.unquote, token by token
unquote(object_key) ==
    [i \in 1..Len(object_key) |->
        CASE object_key[i] = "%2e" -> "."
          [] object_key[i] = "%2f" -> "/"
          [] object_key[i] = "%5c" -> "\\"
          [] object_key[i] = "%00" -> Nul
          [] OTHER -> object_key[i]]

Contains(key, t) == \E i \in 1..Len(key) : key[i] = t

\* lines 113-122: the key starts with "/" or "\", its second character is
\* ":", or it contains "..", "\" or NUL
Suspicious(decoded_key) ==
    \/ decoded_key # <<>> /\ decoded_key[1] \in {"/", "\\"}
    \/ /\ Len(decoded_key) >= 2
       /\ decoded_key[1] \in SingleChars
       /\ decoded_key[2] = ":"
    \/ \E i \in 1..(Len(decoded_key) - 1) : decoded_key[i] = "." /\ decoded_key[i + 1] = "."
    \/ Contains(decoded_key, "\\")
    \/ Contains(decoded_key, Nul)

\* the path components of a key as the operating system reads it (POSIX):
\* "/" separates, empty components are dropped, a leading "/" is kept
RECURSIVE Components(_, _, _)
Components(acc, cur, rest) ==
    IF rest = <<>> THEN (IF cur = "" THEN acc ELSE Append(acc, cur))
    ELSE IF Head(rest) = "/"
    THEN Components(IF cur = "" THEN acc ELSE Append(acc, cur), "", Tail(rest))
    ELSE Components(acc, cur \o Head(rest), Tail(rest))

PathOf(object_key) ==
    IF object_key # <<>> /\ object_key[1] = "/"
    THEN <<"/">> \o Components(<<>>, "", object_key)
    ELSE Components(<<>>, "", object_key)

\* LocalStorageProvider.get_file_path: the full path when a regular file is
\* there, else None (NoEnt); a path with a NUL byte names nothing and a path
\* that ends in "/" names no regular file
get_file_path(fs, ds, object_key) ==
    IF object_key = <<>> THEN NoEnt
    ELSE IF Contains(object_key, Nul) \/ object_key[Len(object_key)] = "/" THEN NoEnt
    ELSE LET full_path == Resolve(ds, _get_full_path(PathOf(object_key)))
         IN  IF full_path \in fs THEN full_path ELSE NoEnt

\* A handler without the check of lines 119-124.
GetFile_NoCheck(object_key) ==
    /\ LET call == [NoResp EXCEPT !.op = "get_file", !.key = object_key, !.code = 404]
           file_path == get_file_path(files, dirs, object_key)
       IN
       resp' =
         IF Lower(STORAGE_TYPE) # "local"
         THEN [call EXCEPT !.message = "unsupported"]
         ELSE IF Kind # "local"
         THEN [call EXCEPT !.message = "unsupported", !.called = {"get_storage_provider"}]
         ELSE IF file_path = NoEnt
         THEN [call EXCEPT !.message = "missing",
                           !.called = {"get_storage_provider", "get_file_path"}]
         ELSE [call EXCEPT !.code = 200, !.rows = {file_path},
                           !.called = {"get_storage_provider", "get_file_path"}]
    /\ UNCHANGED <<factoryVars, storeVars, probeVars, dbVars, svcVars, users,
                   clock, SECRET_KEY, held, settings>>

\* get_file: the storage type, the check of the decoded key, the provider, the
\* path of the file, send_file; resp.rows is the file whose content is sent
GetFile(object_key) ==
    /\ LET call == [NoResp EXCEPT !.op = "get_file", !.key = object_key, !.code = 404]
           file_path == get_file_path(files, dirs, object_key)
       IN
       resp' =
         IF Lower(STORAGE_TYPE) # "local"
         THEN [call EXCEPT !.message = "unsupported"]
         ELSE IF Suspicious(unquote(object_key))
         THEN [call EXCEPT !.message = "suspicious"]
         ELSE IF Kind # "local"
         THEN [call EXCEPT !.message = "unsupported", !.called = {"get_storage_provider"}]
         ELSE IF file_path = NoEnt
         THEN [call EXCEPT !.message = "missing",
                           !.called = {"get_storage_provider", "get_file_path"}]
         ELSE [call EXCEPT !.code = 200, !.rows = {file_path},
                           !.called = {"get_storage_provider", "get_file_path"}]
    /\ UNCHANGED <<factoryVars, storeVars, probeVars, dbVars, svcVars, users,
                   clock, SECRET_KEY, held, settings>>

\* the tokens of a stored key: its components with "/" between them
RECURSIVE KeyTokens(_)
KeyTokens(object_key) ==
    IF Len(object_key) <= 1 THEN object_key
    ELSE <<Head(object_key), "/">> \o KeyTokens(Tail(object_key))

\* files of other programs: one beside the upload directory, one in the root
OutsideFiles == {<<"srv", "secret">>, <<"secret">>}

MaxPieces == 2

\* what a key is made of: "..", plain and escaped, the separators, plain and
\* escaped, a NUL byte, a drive, a dot, a colon
Pieces == {<<".", ".">>, <<"%2e", "%2e">>, <<".", "%2e">>, <<"/">>, <<"%2f">>,
           <<"\\">>, <<"%5c">>, <<Nul>>, <<"%00">>, <<"C", ":">>, <<".">>, <<":">>}

RECURSIVE Flat(_)
Flat(ps) == IF ps = <<>> THEN <<>> ELSE Head(ps) \o Flat(Tail(ps))

Heads == {Flat(ps) : ps \in UNION {[1..n -> Pieces] : n \in 0..MaxPieces}}

StoredKeys == {generate_object_key("report.PDF", "documents", n) : n \in 1..MaxKeys}

\* the keys asked for: up to MaxPieces pieces, then nothing, the name of an
\* outside file, a stored key, or a way out of a directory of stored keys
FileKeys ==
    {h \o b : h \in Heads,
               b \in {<<>>, <<"secret">>,
                      <<"documents", "/", ".", ".", "/", ".", ".", "/", "secret">>}
                     \cup {KeyTokens(k) : k \in StoredKeys}}

InitFiles ==
    /\ \E kind \in Supported :
          /\ STORAGE_TYPE \in {kind} \cup (IF kind = "local" THEN {"LOCAL"} ELSE {})
          /\ storage_provider = [id |-> 1, kind |-> kind]
          /\ bucketExists = (kind = "minio")
          /\ dirs = IF kind = "local" THEN _ensure_dir_exists({<<>>, <<"srv">>}, UploadDir)
                    ELSE {<<>>, <<"srv">>}
    /\ thr = [t \in Threads |-> IdleThread]
    /\ nextInst = 2
    /\ epochMade = {storage_provider}
    /\ epochRet = {storage_provider}
    /\ retired = {}
    /\ makeBucketCalls = 0
    /\ files = OutsideFiles
    /\ objects = {}
    /\ nextKey = 1
    /\ InitIdleServices

NextFiles ==
    \/ StUpload("report.PDF", "documents", "ok")
    \/ \E k \in FileKeys : GetFile(k)

SpecFiles == InitFiles /\ [][NextFiles]_vars

(***************************************************************************)
(* File serving: properties                                                *)
(***************************************************************************)
Inside(path) == Len(path) > Len(UploadDir) /\ SubSeq(path, 1, Len(UploadDir)) = UploadDir

\* what is sent is a regular file below the upload root
ServedInside ==
    resp.op = "get_file" =>
       /\ resp.code \in {200, 404}
       /\ resp.code = 200 <=> resp.rows # {}
       /\ \A path \in resp.rows : path \in files /\ Inside(path)

\* a key that is suspicious once decoded is answered 404 before the provider
\* is asked for a path
RejectedBeforeJoin ==
    (resp.op = "get_file" /\ Suspicious(unquote(resp.key))) =>
       resp.code = 404 /\ resp.rows = {} /\ "get_file_path" \notin resp.called

\* C20: get_file answers "not found" for every key that, once
\* percent-decoded, contains "..", a backslash or a NUL byte, starts with "/"
\* or has a drive prefix; the check comes before the path is joined to the
\* upload root; and the content sent is never that of a file outside the
\* upload root.
PathTraversalRejected == ServedInside /\ RejectedBeforeJoin

\* "%2e%2e/secret" and "../secret" were asked for while /srv/secret exists,
\* and answered 404 without a look at the disk
PathTraversalWitness ==
    /\ resp.op = "get_file"
    /\ resp.key \in {<<".", ".", "/", "secret">>, <<"%2e", "%2e", "/", "secret">>}
    /\ Lower(STORAGE_TYPE) = "local"
    /\ <<"srv", "secret">> \in files
    /\ resp.code = 404
    /\ resp.called = {}


(***************************************************************************)
(* Compensation: one request at a time through the upload, cover and       *)
(* delete flows, with a storage delete that succeeds, fails or raises      *)
(***************************************************************************)
InitComp == InitStorage

NextComp ==
    \/ \E r \in {1}, kb \in {1, 2}, io \in IoOutcomes : UploadDocStore(r, "alice", kb, io)
    \/ \E r \in {1}, dbio \in IoOutcomes : DocCreate(r, dbio)
    \/ \E r \in {1}, io \in BlobOutcomes : UploadRollback(r, io)
    \/ \E r \in {1}, kb \in {1, 2}, d \in Ids : DocDeleteTxn(r, "alice", kb, d)
    \/ \E r \in {1}, dbio \in IoOutcomes : DocDeleteCommit(r, dbio)
    \/ \E r \in {1}, io \in BlobOutcomes : DocDeleteBlob(r, io)
    \/ UploadImage("ok")
    \/ \E c \in KnownKeys \cup {NoKey} : KbCreate("alice", "notes", 200, 50, c)
    \/ \E r \in {1}, upd \in UpdateInputs : KbUpdateTxn(r, "alice", 1, upd)
    \/ \E r \in {1}, dbio \in IoOutcomes : KbUpdateCommit(r, dbio)
    \/ \E r \in {1}, io \in BlobOutcomes : KbUpdateBlob(r, io)
    \/ \E r \in {1} : KbDeleteTxn(r, "alice", 1)
    \/ \E r \in {1}, dbio \in IoOutcomes : KbDeleteCommit(r, dbio)
    \/ \E r \in {1}, io \in BlobOutcomes : KbDeleteBlob(r, io)
    \/ \E r \in {1} : Finish(r)

SpecComp == InitComp /\ [][NextComp]_vars

\* the outcome of the primary operation, known before the storage delete:
\* the error of the insert at a rollback, success after a commit
PrimaryOutcome(q) ==
    IF q.pc = "rollback" THEN [ok |-> FALSE, error |-> q.error]
    ELSE [ok |-> TRUE, error |-> None]

CompensationSilent ==
    \A r \in Requests, io \in BlobOutcomes :
       (\/ UploadRollback(r, io) \/ DocDeleteBlob(r, io)
        \/ KbUpdateBlob(r, io) \/ KbDeleteBlob(r, io)) =>
          /\ req'[r].pc = "done"
          /\ req'[r].ok = PrimaryOutcome(req[r]).ok
          /\ req'[r].error = PrimaryOutcome(req[r]).error
          /\ req[r].pc = "rollback" => req[r].error # None
          /\ UNCHANGED dbVars

\* C21: in the upload, cover-replacement and delete flows the value returned
\* for the primary operation is the same whether the compensating or deferred
\* storage delete succeeds, returns (False, error) or raises; a failed
\* metadata insert is answered with the error of the insert also when the
\* rollback delete fails.
CompensationKeepsOutcome == [][CompensationSilent]_vars

\* the insert failed on the database, the rollback delete failed too, and the
\* answer is the error of the insert
CompensationWitness ==
    \E r \in Requests :
       /\ req[r].op = "upload_document"
       /\ req[r].pc = "done"
       /\ req[r].error = "internal"
       /\ req[r].blob \in {"fail", "raise"}
       /\ ProvExists(Kind, req[r].key, "ok")


(***************************************************************************)
(* DocumentService.delete: when it removes the record                      *)
(***************************************************************************)
\* what the queries of delete find: the knowledge base of the caller, the
\* document in it, and a status other than processing
DeleteGuards(user_id, kb_id, doc_id) ==
    /\ KbOwned(kb_id, user_id) # {}
    /\ DocIn(doc_id, kb_id) # {}
    /\ \A d \in DocIn(doc_id, kb_id) : d.status # "processing"

\* the session of delete goes on to the commit exactly when the guards hold;
\* otherwise it answers (False, error), and for a document that is processing
\* the answer names the lifecycle guard; no record or file changes
DeleteGuarded ==
    \A r \in Requests, u \in Users, kb \in Ids, d \in Ids :
        DocDeleteTxn(r, u, kb, d) =>
            /\ DeleteGuards(u, kb, d) <=> req'[r].pc = "commit"
            /\ ~DeleteGuards(u, kb, d) =>
                  /\ req'[r].pc = "done"
                  /\ ~req'[r].ok
                  /\ req'[r].error # None
            /\ (KbOwned(kb, u) # {} /\ \E x \in DocIn(d, kb) : x.status = "processing")
                  => req'[r].error = "processing"
            /\ UNCHANGED <<dbVars, storeVars>>

\* leaving the session always removes the record
CommitAlwaysRemoves ==
    \A r \in Requests, dbio \in IoOutcomes :
        DocDeleteCommit(r, dbio) =>
            /\ req'[r].committed
            /\ \A x \in docs' : x.id # req[r].doc

\* leaving the session removes the record, or the commit raises and the answer
\* is (False, error) with every record and file as before
CommitRemovesOrFails ==
    \A r \in Requests, dbio \in IoOutcomes :
        DocDeleteCommit(r, dbio) =>
            IF dbio = "ok"
            THEN /\ req'[r].committed
                 /\ \A x \in docs' : x.id # req[r].doc
            ELSE /\ req'[r].pc = "done"
                 /\ ~req'[r].ok
                 /\ req'[r].error = "internal"
                 /\ UNCHANGED <<dbVars, storeVars>>

\* a finished delete answers (True, None) exactly when its commit went through
DeleteAnswer ==
    \A r \in Requests :
        req[r].op = "delete_document" /\ req[r].pc = "done" =>
            /\ req[r].ok <=> req[r].committed
            /\ req[r].ok <=> req[r].error = None
            /\ req[r].committed => \A x \in docs : x.id # req[r].doc

\* the status values a caller of update_status sends
StatusInputs == DocumentStatus \cup {"archived"}

\* Deletes of documents by two users next to uploads and status changes in
\* the knowledge base of one of them.
InitDelete == InitStorage

NextDelete ==
    \/ \E r \in Requests, io \in IoOutcomes : UploadDocStore(r, "alice", 1, io)
    \/ \E r \in Requests, dbio \in IoOutcomes : DocCreate(r, dbio)
    \/ \E r \in Requests : UploadRollback(r, "ok")
    \/ \E r \in Requests, u \in Users, kb \in {1, 2}, d \in {2, 3} :
          DocDeleteTxn(r, u, kb, d)
    \/ \E r \in Requests, dbio \in IoOutcomes : DocDeleteCommit(r, dbio)
    \/ \E r \in Requests, io \in BlobOutcomes : DocDeleteBlob(r, io)
    \/ \E d \in {2, 3}, st \in StatusInputs : UpdateStatus("alice", 1, d, st)
    \/ KbCreate("alice", "notes", 200, 50, NoKey)
    \/ \E r \in Requests : Finish(r)

SpecDelete == InitDelete /\ [][NextDelete]_vars

\* C22 as stated: DocumentService.delete returns (True, None) and removes the
\* record exactly when the knowledge base is owned by the caller, the document
\* exists in it and its status is not processing; a processing document gets
\* (False, error) and its record and file stay.
DeleteExactlyWhenGuards ==
    [][DeleteGuarded /\ CommitAlwaysRemoves]_vars

\* C22 as amended: delete returns (True, None) only when the knowledge base is
\* owned by the caller, the document exists in it and the status read in the
\* session is not processing, and then exactly when the commit succeeds, which
\* removes the record; when a guard fails, or the commit raises, it returns
\* (False, error) and every record and file is as before.
DeleteWhenGuardsAndCommit ==
    []DeleteAnswer /\ [][DeleteGuarded /\ CommitRemovesOrFails]_vars

\* one delete was refused for a processing document whose record and file are
\* still there, another passed the guards and lost its commit
DeleteGuardsWitness ==
    \E r, q \in Requests :
        /\ req[r].op = "delete_document" /\ req[r].pc = "done"
        /\ req[r].error = "processing"
        /\ \E d \in docs : /\ d.id = req[r].doc
                             /\ d.status = "processing"
                             /\ ProvExists(Kind, d.file_path, "ok")
        /\ req[q].op = "delete_document" /\ req[q].pc = "done"
        /\ req[q].error = "internal"
        /\ \E d \in docs : d.id = req[q].doc


(***************************************************************************)
(* Document status lifecycle                                               *)
(***************************************************************************)
\* the status changes of the lifecycle
Lifecycle ==
    {<<"pending", "processing">>, <<"processing", "completed">>,
     <<"processing", "failed">>}

\* every status is one of the four values
StatusValid == \A d \in docs : d.status \in DocumentStatus

\* a record that appears has status pending
CreatedPending ==
    \A e \in docs' : (\A d \in docs : d.id # e.id) => e.status = "pending"

\* a record whose status changes follows the lifecycle
LifecycleOrder ==
    \A d \in docs, e \in docs' :
        (d.id = e.id /\ d.status # e.status) => <<d.status, e.status>> \in Lifecycle

\* C23: a Document is created with status pending, its status is always one
\* of pending, processing, completed, failed, and the only status changes are
\* pending to processing and processing to completed or failed.
StatusLifecycle ==
    []StatusValid /\ [][CreatedPending /\ LifecycleOrder]_vars

\* the part of C23 that the code keeps: created pending, always a valid value
StatusDomain ==
    []StatusValid /\ [][CreatedPending]_vars


(***************************************************************************)
(* KnowledgebaseService: the session and the storage calls, step by step   *)
(***************************************************************************)
\* create, lines 114-118: the session is opened, the row added and flushed
\* (the unique index on name raises here), kb.to_dict() taken.
KbCreateSession(r, user_id, name, cover_image) ==
    /\ Free(r)
    /\ LET start == [IdleReq EXCEPT !.op = "kb_create", !.user = user_id,
                                    !.upd = [NoUpdate EXCEPT !.name = name,
                                                !.cover_image = cover_image]]
       IN  req' = [req EXCEPT ![r] =
             IF \E k \in kbs : k.name = name
             THEN Answer(start, FALSE, "name_exists")
             ELSE [start EXCEPT !.pc = "session"]]
    /\ UNCHANGED <<appVars, factoryVars, storeVars, probeVars, dbVars, removed>>

\* get_by_id, lines 153-166: the session is opened, the row queried.
KbGetSession(r, kb_id, user_id) ==
    /\ Free(r)
    /\ LET start == [IdleReq EXCEPT !.op = "kb_get_by_id", !.user = user_id,
                                    !.kb = kb_id]
       IN  req' = [req EXCEPT ![r] =
             IF KbGetById(kb_id, user_id).rows = {}
             THEN Answer(start, FALSE, "kb_not_found")
             ELSE [start EXCEPT !.pc = "session"]]
    /\ UNCHANGED <<appVars, factoryVars, storeVars, probeVars, dbVars, removed>>

\* update, lines 257-288: the body of the session up to kb.to_dict().
KbUpdateSession(r, user_id, kb_id, upd) ==
    /\ Free(r)
    /\ LET b == KbUpdateBody(user_id, kb_id, upd)
       IN  req' = [req EXCEPT ![r] =
             IF b.pc = "commit" THEN [b EXCEPT !.pc = "session"] ELSE b]
    /\ UNCHANGED <<appVars, factoryVars, storeVars, probeVars, dbVars, removed>>

\* kb_dict['cover_image'] of the request inside its session
CoverOf(q) ==
    IF q.op = "kb_create" THEN q.upd.cover_image
    ELSE LET row == {k \in kbs : k.id = q.kb} IN
         IF row = {} THEN NoKey
         ELSE IF q.op = "update_kb" /\ "cover_image" \in q.upd.fields
         THEN q.upd.cover_image
         ELSE (CHOOSE k \in row : TRUE).cover_image

\* _convert_cover_url, called at lines 120, 168 and 289 inside the with block:
\* storage.get_url(cover_image) when there is a cover, its failure caught.
ConvertCoverUrl(r, io) ==
    /\ req[r].pc = "session"
    /\ LET cover == CoverOf(req[r]) IN
       /\ probe' = IF cover = NoKey THEN probe
                   ELSE [NoCall EXCEPT !.op = "get_url", !.key = cover, !.io = io,
                            !.ok = io # "raise" /\ ProvGetUrl(Kind, cover, io) # NoUrl]
       /\ req' = [req EXCEPT ![r].pc =
                     IF req[r].op = "update_kb" THEN "commit" ELSE "leave"]
    /\ UNCHANGED <<appVars, factoryVars, storeVars, live, everUploaded, dbVars, removed>>

\* create and get_by_id leaving the with block: session_scope commits, or the
\* commit raises and the except answers.
SessionLeave(r, dbio) ==
    /\ req[r].pc = "leave"
    /\ IF dbio = "fail"
       THEN /\ req' = Respond(r, FALSE, "internal")
            /\ UNCHANGED <<kbs, nextId>>
       ELSE IF req[r].op = "kb_create"
       THEN IF \E k \in kbs : k.name = req[r].upd.name
            THEN /\ req' = Respond(r, FALSE, "name_exists")
                 /\ UNCHANGED <<kbs, nextId>>
            ELSE /\ nextId <= MaxIds
                 /\ kbs' = kbs \cup {[id |-> nextId, user_id |-> req[r].user,
                                      name |-> req[r].upd.name,
                                      cover_image |-> req[r].upd.cover_image,
                                      chunk_size |-> 200, chunk_overlap |-> 50]}
                 /\ nextId' = nextId + 1
                 /\ req' = [req EXCEPT ![r] =
                       Answer([req[r] EXCEPT !.kb = nextId, !.committed = TRUE],
                              TRUE, None)]
       ELSE /\ req' = [req EXCEPT ![r] =
                  Answer([req[r] EXCEPT !.committed = TRUE], TRUE, None)]
            /\ UNCHANGED <<kbs, nextId>>
    /\ UNCHANGED <<appVars, factoryVars, storeVars, probeVars, docs, removed>>

InitSessions == InitStorage

NextSessions ==
    \/ UploadImage("ok")
    \/ \E r \in {1}, c \in KnownKeys \cup {NoKey} :
          KbCreateSession(r, "alice", "notes", c)
    \/ \E r \in {1}, u \in {"alice", None} : KbGetSession(r, 1, u)
    \/ \E r \in {1}, upd \in UpdateInputs : KbUpdateSession(r, "alice", 1, upd)
    \/ \E r \in {1}, io \in BlobOutcomes : ConvertCoverUrl(r, io)
    \/ \E r \in {1}, dbio \in IoOutcomes : SessionLeave(r, dbio)
    \/ \E r \in {1}, dbio \in IoOutcomes : KbUpdateCommit(r, dbio)
    \/ \E r \in {1}, io \in BlobOutcomes : KbUpdateBlob(r, io)
    \/ \E r \in {1} : KbDeleteTxn(r, "alice", 1)
    \/ \E r \in {1}, dbio \in IoOutcomes : KbDeleteCommit(r, dbio)
    \/ \E r \in {1}, io \in BlobOutcomes : KbDeleteBlob(r, io)
    \/ \E r \in {1} : Finish(r)

SpecSessions == InitSessions /\ [][NextSessions]_vars

\* the request is inside `with session_scope()`: the session is open and
\* neither committed nor rolled back
SessionOpen(q) == q.pc \in {"session", "leave", "commit"} /\ ~q.committed

\* the step is a call of a storage provider method by request r
StorageCall(r) ==
    \E io \in BlobOutcomes :
        \/ ConvertCoverUrl(r, io) /\ CoverOf(req[r]) # NoKey
        \/ KbUpdateBlob(r, io)
        \/ KbDeleteBlob(r, io)

\* C24: no operation of the Knowledgebase service calls a storage provider
\* method while its database session is open; every storage call happens
\* before the session is opened or after it has been committed and closed.
NoStorageCallInSession ==
    [][\A r \in Requests : StorageCall(r) => ~SessionOpen(req[r])]_vars

\* what the code keeps: the storage deletes of update and delete come after
\* the commit of their session
DeletesAfterCommit ==
    [][\A r \in Requests, io \in BlobOutcomes :
          (KbUpdateBlob(r, io) \/ KbDeleteBlob(r, io)) => req[r].committed]_vars


(***************************************************************************)
(* KnowledgebaseService.delete: one commit, then the cover                 *)
(***************************************************************************)
\* the commit of delete removes the row and every document of the knowledge
\* base and nothing else, and touches no file; a failed commit removes nothing
KbDeleteOneCommit ==
    \A r \in Requests, dbio \in IoOutcomes :
        KbDeleteCommit(r, dbio) =>
            /\ UNCHANGED storeVars
            /\ removed' = removed
            /\ IF dbio = "ok"
               THEN /\ kbs' = {k \in kbs : k.id # req[r].kb}
                    /\ docs' = {d \in docs : d.kb_id # req[r].kb}
                    /\ req'[r].committed
               ELSE /\ UNCHANGED dbVars
                    /\ req'[r].pc = "done"
                    /\ ~req'[r].ok
                    /\ req'[r].error = "internal"
                    /\ req'[r].blob = "none"

\* the cover is deleted by a request that has committed, and no record
\* changes with it
KbCoverAfterCommit ==
    \A r \in Requests, io \in BlobOutcomes :
        KbDeleteBlob(r, io) =>
            /\ req[r].committed
            /\ \A k \in kbs : k.id # req[r].kb
            /\ \A d \in docs : d.kb_id # req[r].kb
            /\ UNCHANGED dbVars

\* a finished delete that did not commit has deleted no file
KbDeleteAnswer ==
    \A r \in Requests :
        req[r].op = "delete_kb" /\ req[r].pc = "done" =>
            /\ req[r].ok <=> req[r].committed
            /\ ~req[r].committed => req[r].blob = "none"

\* C25: a successful KnowledgebaseService.delete by the owner removes the
\* Knowledgebase record and every Document record of it in one commit and
\* deletes the cover blob only after that commit; when the commit fails no
\* record and no blob is removed.
KbDeleteCascade ==
    []KbDeleteAnswer /\ [][KbDeleteOneCommit /\ KbCoverAfterCommit]_vars

\* a knowledge base with a cover and a document has been deleted: its cover
\* went after the commit and no record of it is left
KbDeleteCascadeWitness ==
    \E r \in Requests :
        /\ req[r].op = "delete_kb" /\ req[r].pc = "done"
        /\ req[r].ok /\ req[r].committed
        /\ req[r].blob = "ok" /\ req[r].key \in removed
        /\ kbs = {} /\ docs = {}
        /\ nextId >= 3


(***************************************************************************)
(* Documents and the files they name                                       *)
(***************************************************************************)
\* C26: after any sequence of document uploads and deletes and of knowledge
\* base creations, updates with a cover_image of the caller and deletes, the
\* file_path of every Document record names a blob that exists in storage.
NoDanglingDocument ==
    \A d \in docs : ProvExists(Kind, d.file_path, "ok")


(***************************************************************************)
(* Local storage: which paths a key reaches                                *)
(***************************************************************************)
\* keys a caller can send as cover_image: up and out of the upload root, and
\* an absolute path
EscapeKeys == {<<"..", "secret">>, <<"/", "secret">>, <<"..", "uploads">>}

\* A local disk with files outside the upload root; the covers of the
\* knowledge bases are whatever the caller sends.
InitConfine ==
    /\ STORAGE_TYPE = "local"
    /\ storage_provider = [id |-> 1, kind |-> "local"]
    /\ bucketExists = FALSE
    /\ dirs = _ensure_dir_exists({<<>>, <<"srv">>}, UploadDir)
    /\ thr = [t \in Threads |-> IdleThread]
    /\ nextInst = 2
    /\ epochMade = {storage_provider}
    /\ epochRet = {storage_provider}
    /\ retired = {}
    /\ makeBucketCalls = 0
    /\ files = OutsideFiles
    /\ objects = {}
    /\ nextKey = 1
    /\ InitIdleServices

NextConfine ==
    \/ UploadImage("ok")
    \/ \E c \in EscapeKeys \cup KnownKeys \cup {NoKey} :
          KbCreate("alice", "notes", 200, 50, c)
    \/ \E kb \in Ids : KbGetSession(1, kb, "alice")
    \/ \E io \in BlobOutcomes : ConvertCoverUrl(1, io)
    \/ \E dbio \in IoOutcomes : SessionLeave(1, dbio)
    \/ \E kb \in Ids : KbDeleteTxn(1, "alice", kb)
    \/ \E dbio \in IoOutcomes : KbDeleteCommit(1, dbio)
    \/ \E io \in BlobOutcomes : KbDeleteBlob(1, io)
    \/ Finish(1)

SpecConfine == InitConfine /\ [][NextConfine]_vars

\* what a step removes is inside the upload root
RemovedInside ==
    \A p \in (files \ files') \cup (dirs \ dirs') : Inside(p)

\* the upload root and the directories above it stay
RootKept == \A d \in Prefixes(UploadDir) : d \in dirs => d \in dirs'

\* a key that get_url finds names a file inside the upload root
ReadInside ==
    \A r \in Requests, io \in BlobOutcomes :
        (ConvertCoverUrl(r, io) /\ CoverOf(req[r]) # NoKey /\ probe'.ok) =>
            Inside(Resolve(dirs, _get_full_path(CoverOf(req[r]))))

\* C27: for every object_key passed to LocalStorageProvider.delete, exists or
\* get_file_path, also one that came in as the cover_image of a caller and
\* contains .. or is an absolute path, only paths inside the upload root are
\* read or removed, and the pruning of directories after a delete never
\* removes the upload root or a directory above it.
LocalConfinement ==
    [][RemovedInside /\ RootKept /\ ReadInside]_vars

\* the part of C27 about pruning: the upload root and the directories above
\* it are never removed
PruningStopsAtRoot == [][RootKept]_vars


(***************************************************************************)
(* Errors and the persisted state                                          *)
(***************************************************************************)
\* update_data of the requests here: a new name with a new cover, a new
\* cover, an overlap too large, or nothing
ErrorUpdates ==
    {NoUpdate,
     [NoUpdate EXCEPT !.fields = {"chunk_overlap"}, !.chunk_overlap = 200],
     [NoUpdate EXCEPT !.fields = {"cover_image"}],
     [NoUpdate EXCEPT !.fields = {"name", "cover_image"}, !.name = "papers"]}

\* The operations of the four services by one worker, which takes a call
\* when it has answered the one before, each with the inputs and the database
\* outcomes that make it fail.
InitErrors == InitProvider("local") /\ InitIdleServices

WorkerIdle == req[1].pc = "idle" /\ settings.sessions[1].pc = "idle"

NextErrors ==
    \/ WorkerIdle /\ \E dbio \in IoOutcomes : CreateUser("alice", "pw1", None, dbio)
    \/ WorkerIdle /\ \E id \in UserIds, old \in Passwords, dbio2 \in IoOutcomes :
          UpdatePassword(id, old, "pw2", "ok", dbio2)
    \/ WorkerIdle /\ \E v \in {Number(0), Number(10)} :
          SettingsUpdateTxn(1, [NoData EXCEPT !.fields = {"top_k"}, !.top_k = v])
    \/ WorkerIdle /\ UploadImage("ok")
    \/ WorkerIdle /\ \E n \in Names, c \in KnownKeys, dbio \in IoOutcomes :
          CreateKnowledgebase("alice", n, 200, 50, c, dbio)
    \/ WorkerIdle /\ \E u \in Users, upd \in ErrorUpdates : KbUpdateTxn(1, u, 1, upd)
    \/ WorkerIdle /\ \E u \in Users : KbDeleteTxn(1, u, 1)
    \/ WorkerIdle /\ \E u \in Users, io \in IoOutcomes : UploadDocStore(1, u, 1, io)
    \/ WorkerIdle /\ \E u \in Users, d \in Ids : DocDeleteTxn(1, u, 1, d)
    \/ WorkerIdle /\ \E d \in Ids : UpdateStatus("alice", 1, d, "processing")
    \/ \E dbio \in IoOutcomes : SettingsUpdateCommit(1, dbio)
    \/ \E dbio \in IoOutcomes : KbUpdateCommit(1, dbio)
    \/ \E io \in BlobOutcomes : KbUpdateBlob(1, io)
    \/ \E dbio \in IoOutcomes : KbDeleteCommit(1, dbio)
    \/ \E io \in BlobOutcomes : KbDeleteBlob(1, io)
    \/ \E dbio \in IoOutcomes : DocCreate(1, dbio)
    \/ UploadRollback(1, "ok")
    \/ \E dbio \in IoOutcomes : DocDeleteCommit(1, dbio)
    \/ \E io \in BlobOutcomes : DocDeleteBlob(1, io)
    \/ Finish(1)

SpecErrors == InitErrors /\ [][NextErrors]_vars

\* the records and the blobs
Persisted == <<kbs, docs, users, settings.table, files, dirs, objects>>

\* the step is a service operation returning an error: a request gets its
\* error (in upload_document, from DocumentService.create and not from the
\* storage upload of the route before it), or the call answers one
ReturnsError ==
    \/ \E r \in Requests :
          /\ req[r].error = None
          /\ req'[r].error # None
          /\ req'[r].op = "upload_document" => req[r].pc = "create"
    \/ resp' # resp /\ resp'.error # None

\* a service operation that has answered an error never committed and never
\* called a storage delete (the rollback delete of upload_document is the
\* route's, after DocumentService.create has returned)
ErrorBeforeCommit ==
    \A r \in Requests :
        (req[r].error # None /\ req[r].op # "upload_document") =>
            ~req[r].committed /\ req[r].blob = "none"

IdClaim(id) == ToString(id)
IdOf(user_id) == CHOOSE id \in UserIds : IdClaim(id) = user_id

\* login: authenticate, then a token for the user with the default lifetime;
\* the client keeps it
LoginRoute(username, password) ==
    /\ LET user == get_by_username(username, "ok") IN
       IF \E u \in user : u.is_active /\ verify_password(password, u.password_hash)
       THEN LET u == CHOOSE x \in user : TRUE IN
            /\ held' = [tok |-> generate_token(IdClaim(u.id), u.username,
                                               DEFAULT_TOKEN_EXPIRE_HOURS,
                                               clock, SECRET_KEY),
                        origin |-> "issued", at |-> clock,
                        hours |-> DEFAULT_TOKEN_EXPIRE_HOURS,
                        who |-> [user_id |-> IdClaim(u.id), username |-> u.username]]
            /\ resp' = [NoResp EXCEPT !.op = "login", !.code = 200, !.rows = {u.id}]
       ELSE /\ resp' = [NoResp EXCEPT !.op = "login", !.code = 401]
            /\ UNCHANGED held
    /\ UNCHANGED <<factoryVars, storeVars, probeVars, dbVars, svcVars, users,
                   clock, SECRET_KEY, settings>>

\* logout: behind login_required, it logs the name and answers; nothing is
\* stored. The client keeps the token, marked as logged out.
Logout(auth_header) ==
    /\ LET a == login_required(auth_header, clock, SECRET_KEY) IN
       IF a.code # 200
       THEN resp' = a /\ UNCHANGED held
       ELSE /\ resp' = [a EXCEPT !.op = "logout", !.called = {"logout"}]
            /\ held' = [held EXCEPT !.origin = "logged_out"]
    /\ UNCHANGED <<factoryVars, storeVars, probeVars, dbVars, svcVars, users,
                   clock, SECRET_KEY, settings>>

\* me: behind login_required, the view reads the user again and answers 401
\* for a missing or disabled account
GetMe(auth_header) ==
    /\ LET a == login_required(auth_header, clock, SECRET_KEY)
           user == get_by_id(IdOf(a.payload.user_id), "ok")
           view == [a EXCEPT !.op = "me", !.called = {"get_me"}]
       IN  resp' = IF a.code # 200 THEN a
                   ELSE IF user = {}
                   THEN [view EXCEPT !.code = 401, !.message = "user_missing"]
                   ELSE IF \E u \in user : ~u.is_active
                   THEN [view EXCEPT !.code = 401, !.message = "disabled"]
                   ELSE [view EXCEPT !.rows = {u.id : u \in user}]
    /\ UNCHANGED <<factoryVars, storeVars, probeVars, dbVars, svcVars, users,
                   clock, SECRET_KEY, held, settings>>

\* change-password: behind login_required, update_password for the user_id
\* of the token
ChangePassword(auth_header, old_password, new_password) ==
    LET a == login_required(auth_header, clock, SECRET_KEY) IN
    IF a.code # 200
    THEN /\ resp' = a
         /\ UNCHANGED <<factoryVars, storeVars, probeVars, dbVars, svcVars, users,
                        clock, SECRET_KEY, held, settings>>
    ELSE UpdatePassword(IdOf(a.payload.user_id), old_password, new_password, "ok", "ok")

\* is_active of a user is cleared in the database (no route does it)
Deactivate(user_id) ==
    /\ \E u \in users : u.id = user_id /\ u.is_active
    /\ users' = {IF u.id = user_id THEN [u EXCEPT !.is_active = FALSE] ELSE u
                 : u \in users}
    /\ UNCHANGED <<factoryVars, storeVars, probeVars, dbVars, svcVars,
                   clock, SECRET_KEY, held, settings, resp>>

\* the default lifetime of a token goes by
Sleep ==
    /\ clock < MaxClock
    /\ clock' = clock + DEFAULT_TOKEN_EXPIRE_HOURS * HourTicks
    /\ UNCHANGED <<factoryVars, storeVars, probeVars, dbVars, svcVars, users,
                   SECRET_KEY, held, settings, resp>>

\* the header of a client that sends the token it holds
Bearer == [parts |-> 2, scheme |-> "Bearer", token |-> held.tok]

InitStateless == InitProvider("local") /\ InitIdleServices

NextStateless ==
    \/ CreateUser("alice", "pw1", None, "ok")
    \/ \E pw \in Passwords : LoginRoute("alice", pw)
    \/ Tick
    \/ Sleep
    \/ \E k \in Secrets : RotateSecret(k)
    \/ \E h \in {NoHeader, Bearer} : Protected(h)
    \/ Logout(Bearer)
    \/ GetMe(Bearer)
    \/ \E old \in Passwords : ChangePassword(Bearer, old, "pw2")
    \/ Deactivate(1)

SpecStateless == InitStateless /\ [][NextStateless]_vars

\* the decorator answered 401 itself
Refused(answer) == answer.op = "request" /\ answer.code = 401

\* a request with the held token to any of the protected endpoints gets past
\* the decorator exactly when the token verifies now under the secret
AcceptedWhenVerified ==
    (\/ Protected(Bearer)
     \/ Logout(Bearer)
     \/ GetMe(Bearer)
     \/ \E old \in Passwords : ChangePassword(Bearer, old, "pw2"))
        => (~Refused(resp') <=> Verified # NoPayload)

\* C29: whether login_required accepts a token depends only on the token, the
\* server secret and the time: a token issued at login is accepted on the
\* protected endpoints after logout, after a password change and after the
\* account is deactivated, until its exp passes.
TokenStateless ==
    [][AcceptedWhenVerified]_vars

\* the token went through logout, the password was changed, the account is
\* disabled, and the decorator has still let the token through to the view of
\* /me, which found the account disabled
TokenStatelessWitness ==
    /\ held.origin = "logged_out"
    /\ \E u \in users : /\ IdClaim(u.id) = held.who.user_id
                         /\ ~u.is_active
                         /\ u.password_hash = hash_password("pw2")
    /\ resp.op = "me"
    /\ resp.called = {"get_me"}
    /\ resp.message = "disabled"

\* the lifetime has gone by and the decorator refuses the same token
TokenExpiredWitness ==
    /\ held.origin = "logged_out"
    /\ held.tok.key = SECRET_KEY
    /\ clock >= held.tok.exp * TicksPerSecond
    /\ Refused(resp)
    /\ resp.message = "expired"


(***************************************************************************)
(* The owner filter of the knowledge base service                          *)
(***************************************************************************)
\* routes/knowledgebase.py get_knowledgebase behind login_required: the
\* user_id of g.current_user (None when the payload has none) goes to
\* get_by_id
GetKnowledgebase(kb_id, payload) ==
    /\ LET result == KbGetById(kb_id, payload.user_id) IN
       resp' = [NoResp EXCEPT !.op = "get_kb",
                              !.code = IF result.error # None THEN 404 ELSE 200,
                              !.rows = {k.id : k \in result.rows},
                              !.error = result.error,
                              !.payload = payload,
                              !.called = {"kb_service.get_by_id"},
                              !.returned = Returned(result.result, result.error)]
    /\ UNCHANGED <<factoryVars, storeVars, probeVars, dbVars, svcVars, users,
                   clock, SECRET_KEY, held, settings>>

\* the user_id a caller of the service passes: a user, None or ''
Callers == Users \cup {None, ""}

InitFilter == InitProvider("local") /\ InitIdleServices

NextFilter ==
    \/ \E u \in Users, n \in Names : KbCreate(u, n, 200, 50, NoKey)
    \/ \E kb \in Ids, u \in Callers :
          GetKnowledgebase(kb, [NoPayload EXCEPT !.user_id = u])
    \/ \E u \in Callers : Query("kb_get_list", KbGetList(u))
    \/ \E u \in Callers, kb \in Ids, upd \in RenameInputs : KbUpdateTxn(1, u, kb, upd)
    \/ KbUpdateCommit(1, "ok")
    \/ \E u \in Callers, kb \in Ids : KbDeleteTxn(1, u, kb)
    \/ KbDeleteCommit(1, "ok")
    \/ Finish(1)

SpecFilter == InitFilter /\ [][NextFilter]_vars

\* get_by_id returns the knowledge base with the id whoever owns it when the
\* user_id is None or '', and only the caller's own otherwise
GetByIdFilter ==
    \A kb \in Ids, u \in Callers :
        GetKnowledgebase(kb, [NoPayload EXCEPT !.user_id = u]) =>
            /\ resp'.rows = {k.id : k \in {k \in kbs :
                                 k.id = kb /\ (u \in Users => k.user_id = u)}}
            /\ resp'.code = 200 <=> resp'.rows # {}

\* get_list, update and delete filter by the user_id they are given
OthersFilter ==
    \A u \in Callers :
        /\ Query("kb_get_list", KbGetList(u))
              => resp'.rows = {k.id : k \in {k \in kbs : k.user_id = u}}
        /\ \A r \in Requests, kb \in Ids :
              (~\E k \in kbs : k.id = kb /\ k.user_id = u) =>
                 /\ \A upd \in RenameInputs :
                       KbUpdateTxn(r, u, kb, upd) => req'[r].error = "kb_not_found"
                 /\ KbDeleteTxn(r, u, kb) => req'[r].error = "kb_not_found"

\* C30: KnowledgebaseService.get_by_id applies the owner filter only when
\* user_id is non-empty: with None or '' it returns the knowledge base with
\* the id whoever owns it, whereas get_list, update and delete always filter
\* by the user_id they are given.
OwnerFilterOnlyWhenGiven ==
    [][GetByIdFilter /\ OthersFilter]_vars

\* a caller whose user_id is '' has been given the knowledge base of alice
OwnerFilterWitness ==
    /\ resp.op = "get_kb"
    /\ resp.payload.user_id = ""
    /\ resp.code = 200
    /\ \E k \in kbs : k.id \in resp.rows /\ k.user_id = "alice"

============================================================================
